---- MODULE Spec2Model ----
(***************************************************************************)
(* Transaction builders of the funai-sdk transactions package              *)
(* (src/unnamed/part_003): the five unsigned builders, the five signed     *)
(* builders, multi-sig key-order resolution and the multi-sig convenience  *)
(* signing path, together with the two external collaborators they await   *)
(* (fee estimation, nonce lookup) and the ABI fetch of the contract call.  *)
(*                                                                         *)
(* One builder call is modelled from its invocation to its settlement.     *)
(* Each await of the source is a position of pc; the synchronous code      *)
(* between two awaits is one action.                                       *)
(***************************************************************************)
EXTENDS Integers, Sequences, FiniteSets, TLC

(* ------------------------------------------------------------------ *)
(* Bounds of the model                                                  *)
(* ------------------------------------------------------------------ *)

\* Longest list of member public keys of a multi-sig account.
MaxKeys == 2

\* Largest fee / nonce value a caller supplies or a collaborator answers.
MaxAmount == 1

\* Size of the range of the hash160 stand-in (a lossy hash: collisions exist).
HashMod == 2

\* Private keys are 1..NumKeys; each has one public key.
NumKeys == 2

(* ------------------------------------------------------------------ *)
(* Values                                                               *)
(* ------------------------------------------------------------------ *)

\* An optional option of the caller: <<>> when omitted (null/undefined), <<v>> when supplied.
Absent == <<>>

Some(v) == <<v>>

PrivateKeys == 1..NumKeys

\* privateKeyToPublic: the public key of a private key (a bijection that
\* reverses the order, so the byte order of public keys is not the order of
\* the private keys).
privateKeyToPublic(priv) == NumKeys + 1 - priv

PublicKeys == {privateKeyToPublic(p) : p \in PrivateKeys}

Amounts == 0..MaxAmount

Networks == {"mainnet", "testnet"}

\* network.addressVersion of FUNAI_MAINNET / FUNAI_TESTNET.
addressVersion(network) ==
  IF network = "mainnet"
    THEN [singleSig |-> "MainnetSingleSig", multiSig |-> "MainnetMultiSig"]
    ELSE [singleSig |-> "TestnetSingleSig", multiSig |-> "TestnetMultiSig"]

SingleSigHashModes == {"P2PKH", "P2WPKH"}

MultiSigHashModes == {"P2SH", "P2SHNonSequential", "P2WSH", "P2WSHNonSequential"}

isSingleSig(cond) == cond.hashMode \in SingleSigHashModes

RECURSIVE WeightedSum(_)
WeightedSum(keys) ==
  IF keys = <<>> THEN 0
  ELSE WeightedSum(SubSeq(keys, 1, Len(keys) - 1)) + Len(keys) * keys[Len(keys)]

ModeWeight(hashMode) ==
  CASE hashMode = "P2PKH" -> 0
    [] hashMode = "P2SH" -> 1
    [] hashMode = "P2WPKH" -> 2
    [] hashMode = "P2WSH" -> 3
    [] hashMode = "P2SHNonSequential" -> 5
    [] OTHER -> 7

\* addressFromPublicKeys(_, hashMode, numSigs, keys).hash160: a hash of the
\* hash mode, the required-signature count and the ORDERED key list into a
\* small range.
Hash160(hashMode, numSigs, keys) ==
  (ModeWeight(hashMode) + numSigs * WeightedSum(keys)) % HashMod

\* c32address(version, hash160)
c32address(version, hash) == <<version, hash>>

\* createAddress(address).hash160 of an address option <<h>>
createAddressHash160(address) == address[1]

(* ------------------------------------------------------------------ *)
(* Multi-sig key-order resolution                                       *)
(* ------------------------------------------------------------------ *)

RECURSIVE Insert(_, _)
Insert(k, sorted) ==
  IF sorted = <<>> THEN <<k>>
  ELSE IF k <= Head(sorted) THEN <<k>> \o sorted
  ELSE <<Head(sorted)>> \o Insert(k, Tail(sorted))

\* publicKeys.slice().sort(): the keys ascending by byte value.
RECURSIVE SortKeys(_)
SortKeys(keys) ==
  IF keys = <<>> THEN <<>> ELSE Insert(Head(keys), SortKeys(Tail(keys)))

\* A variant that tries the sorted order before the as-given order.
sortPublicKeysForAddress_SortedFirst(publicKeys, numSigs, hashMode, hash) ==
  IF Hash160(hashMode, numSigs, SortKeys(publicKeys)) = hash
    THEN [ok |-> TRUE, keys |-> SortKeys(publicKeys)]
  ELSE IF Hash160(hashMode, numSigs, publicKeys) = hash
    THEN [ok |-> TRUE, keys |-> publicKeys]
  ELSE [ok |-> FALSE, keys |-> <<>>]

\* sortPublicKeysForAddress: ok = FALSE stands for the thrown
\* 'Failed to find matching multi-sig address given public-keys.'
sortPublicKeysForAddress(publicKeys, numSigs, hashMode, hash) ==
  IF Hash160(hashMode, numSigs, publicKeys) = hash
    THEN [ok |-> TRUE, keys |-> publicKeys]
  ELSE IF Hash160(hashMode, numSigs, SortKeys(publicKeys)) = hash
    THEN [ok |-> TRUE, keys |-> SortKeys(publicKeys)]
  ELSE [ok |-> FALSE, keys |-> <<>>]

(* ------------------------------------------------------------------ *)
(* Signer: authorization fields and the chained sighash                 *)
(* ------------------------------------------------------------------ *)

\* The chained sighash at the time a field is appended: the pre-sign hash
\* (<<>>) when no field has been appended, and after each append the hash of
\* the previous sighash combined with the newly appended field. The hash is
\* collision-free: it is the pair it is computed from.
RECURSIVE SigHashOf(_)
SigHashOf(fields) ==
  IF fields = <<>> THEN <<>>
  ELSE <<SigHashOf(SubSeq(fields, 1, Len(fields) - 1)), fields[Len(fields)]>>

\* TransactionSigner.signOrigin(privateKey): a message signature over the
\* current sighash is appended; the signer's public key is recoverable from it.
signOrigin(fields, privateKey) ==
  Append(fields, [type |-> "signature", pub |-> privateKeyToPublic(privateKey),
                  signedBy |-> privateKey, sigHash |-> SigHashOf(fields)])

\* TransactionSigner.appendOrigin(publicKey): the raw public key is appended.
appendOrigin(fields, publicKey) ==
  Append(fields, [type |-> "publicKey", pub |-> publicKey,
                  signedBy |-> 0, sigHash |-> <<>>])

\* The public keys recovered from a field sequence, in field order.
RECURSIVE FieldKeys(_)
FieldKeys(fields) ==
  IF fields = <<>> THEN <<>> ELSE <<Head(fields).pub>> \o FieldKeys(Tail(fields))

NumSignatureFields(fields) ==
  Cardinality({i \in 1..Len(fields) : fields[i].type = "signature"})

\* A variant of the loop that leaves out the members that do not sign.
RECURSIVE SignAppendLoop_SkipAbsent(_, _, _)
SignAppendLoop_SkipAbsent(fields, pubs, signerKeys) ==
  IF pubs = <<>> THEN fields
  ELSE LET publicKey == Head(pubs)
           found == {key \in signerKeys : privateKeyToPublic(key) = publicKey}
       IN SignAppendLoop_SkipAbsent(
            IF found # {} THEN signOrigin(fields, CHOOSE key \in found : TRUE)
                          ELSE fields,
            Tail(pubs), signerKeys)

\* A variant that creates a new signer for every member instead of one signer
\* before the loop: each member signs the pre-sign hash.
RECURSIVE SignAppendLoop_SignerPerMember(_, _, _)
SignAppendLoop_SignerPerMember(fields, pubs, signerKeys) ==
  IF pubs = <<>> THEN fields
  ELSE LET publicKey == Head(pubs)
           found == {key \in signerKeys : privateKeyToPublic(key) = publicKey}
       IN SignAppendLoop_SignerPerMember(
            IF found # {} THEN fields \o signOrigin(<<>>, CHOOSE key \in found : TRUE)
                          ELSE appendOrigin(fields, publicKey),
            Tail(pubs), signerKeys)

\* for (const publicKey of pubs) { find the signer key; signOrigin or appendOrigin }
RECURSIVE SignAppendLoop(_, _, _)
SignAppendLoop(fields, pubs, signerKeys) ==
  IF pubs = <<>> THEN fields
  ELSE LET publicKey == Head(pubs)
           found == {key \in signerKeys : privateKeyToPublic(key) = publicKey}
       IN SignAppendLoop(
            IF found # {} THEN signOrigin(fields, CHOOSE key \in found : TRUE)
                          ELSE appendOrigin(fields, publicKey),
            Tail(pubs), signerKeys)

\* A variant that always signs in the as-given order.
SigningOrder_AsGiven(cond, publicKeys, address) ==
  [ok |-> TRUE, keys |-> publicKeys]

\* const pubs = address ? sortPublicKeysForAddress(...) : publicKeys
SigningOrder(cond, publicKeys, address) ==
  IF address # Absent
    THEN sortPublicKeysForAddress(publicKeys, cond.signaturesRequired,
                                  cond.hashMode, createAddressHash160(address))
    ELSE [ok |-> TRUE, keys |-> publicKeys]

\* mutatingSignAppendMultiSig(transaction, publicKeys, signerKeys, address):
\* ok = FALSE with the error thrown, or the transaction with its fields appended.
mutatingSignAppendMultiSig(transaction, publicKeys, signerKeys, address) ==
  IF isSingleSig(transaction)
    THEN [ok |-> FALSE, error |-> "NotMultiSig", tx |-> transaction]
  ELSE LET pubs == SigningOrder(transaction, publicKeys, address)
       IN IF ~pubs.ok
            THEN [ok |-> FALSE, error |-> "AddressKeyMismatch", tx |-> transaction]
            ELSE [ok |-> TRUE, error |-> "",
                  tx |-> [transaction EXCEPT
                            !.fields = SignAppendLoop(@, pubs.keys, signerKeys)]]

(* ------------------------------------------------------------------ *)
(* The options a caller passes to a builder                             *)
(* ------------------------------------------------------------------ *)

Kinds == {"TokenTransfer", "ContractDeploy", "ContractCall", "Infer", "RegisterModel"}

\* fee?: IntegerType / nonce?: IntegerType
AmountOptions == {Absent} \cup {Some(a) : a \in Amounts}

\* publicKeys: the lists of distinct member keys, of length 1..MaxKeys
KeyLists ==
  UNION {{ks \in [1..n -> PublicKeys] : \A i, j \in 1..n : ks[i] = ks[j] => i = j}
           : n \in 1..MaxKeys}

\* address?: string, given by the hash160 it decodes to
AddressOptions == {Absent} \cup {Some(h) : h \in 0..(HashMod - 1)}

\* Options without publicKeys: the caller names one key. An unsigned builder
\* gets publicKey, a signed builder gets senderKey.
SingleSigOptions(kind, signed) ==
  {[kind |-> kind, signed |-> signed,
    publicKey |-> IF signed THEN Absent ELSE Some(privateKeyToPublic(k)),
    senderKey |-> IF signed THEN Some(k) ELSE Absent,
    publicKeys |-> <<>>, numSignatures |-> 0, address |-> Absent,
    useNonSequentialMultiSig |-> FALSE, signerKeys |-> {},
    fee |-> f, nonce |-> n, network |-> net, sponsored |-> sp,
    validateWithAbi |-> abi] :
      k \in PrivateKeys, f \in AmountOptions, n \in AmountOptions,
      net \in Networks, sp \in BOOLEAN,
      abi \in IF kind = "ContractCall" THEN {"none", "fetch", "given"} ELSE {"none"}}

\* Options with neither publicKey nor senderKey (UnsignedMultiSigOptions /
\* SignedMultiSigOptions).
MultiSigOptions(kind, signed) ==
  {[kind |-> kind, signed |-> signed,
    publicKey |-> Absent, senderKey |-> Absent,
    publicKeys |-> ks, numSignatures |-> m, address |-> a,
    useNonSequentialMultiSig |-> ns, signerKeys |-> sk,
    fee |-> f, nonce |-> n, network |-> net, sponsored |-> sp,
    validateWithAbi |-> "none"] :
      ks \in KeyLists, m \in 1..MaxKeys, a \in AddressOptions, ns \in BOOLEAN,
      sk \in IF signed THEN SUBSET PrivateKeys ELSE {{}},
      f \in AmountOptions, n \in AmountOptions, net \in Networks, sp \in BOOLEAN}

\* The infer and register-model options carry no multi-sig members at all:
\* a caller without publicKey / senderKey passes only the payload options.
NoKeyOptions(kind, signed) ==
  {[kind |-> kind, signed |-> signed,
    publicKey |-> Absent, senderKey |-> Absent,
    publicKeys |-> <<>>, numSignatures |-> 0, address |-> Absent,
    useNonSequentialMultiSig |-> FALSE, signerKeys |-> {},
    fee |-> f, nonce |-> n, network |-> net, sponsored |-> sp,
    validateWithAbi |-> "none"] :
      f \in AmountOptions, n \in AmountOptions, net \in Networks, sp \in BOOLEAN}

TxOptions(kind, signed) ==
  SingleSigOptions(kind, signed) \cup
  (IF kind \in {"Infer", "RegisterModel"}
     THEN NoKeyOptions(kind, signed)
     ELSE {o \in MultiSigOptions(kind, signed) : o.numSignatures <= Len(o.publicKeys)})

\* omit(txOptions, 'senderKey') with publicKey added, or omit(txOptions,
\* 'signerKeys'): the options a signed builder hands to its unsigned builder.
UnsignedOptions(o) ==
  IF o.senderKey # Absent
    THEN [o EXCEPT !.publicKey = Some(privateKeyToPublic(o.senderKey[1])),
                   !.senderKey = Absent]
    ELSE [o EXCEPT !.signerKeys = {}]

(* ------------------------------------------------------------------ *)
(* State of one builder call                                            *)
(* ------------------------------------------------------------------ *)

VARIABLES
  pc,            \* position of the call: idle, awaitAbi, awaitFee, awaitNonce,
                 \* signing (the unsigned builder has resolved inside a signed
                 \* builder), returned, rejected
  opts,          \* the caller's txOptions: Absent before the call, Some(options)
  tx,            \* the FunaiTransactionWire under construction: Absent or Some(tx)
  condKeys,      \* the local publicKeys the multi-sig spending condition was created from
  feeCalls,      \* number of fetchFeeEstimate calls issued
  nonceCalls,    \* number of fetchNonce calls issued
  abiCalls,      \* number of fetchAbi calls issued
  nonceAddress,  \* the address argument of fetchNonce: Absent or Some(address)
  collabError,   \* the rejection of a collaborator: Absent or Some([from, error])
  error,         \* the rejection of the builder promise: Absent or Some(error)
  result,        \* the transaction the builder promise resolved with: Absent or Some(tx)
  sponsor,       \* the running sponsorTransaction call (its locals and the caller's transaction)
  pair,          \* two builder calls in flight at once, the caller's option objects
                 \* and the module-level network constants
  chain,         \* an authorization field list as signed and as received by a verifier
  codec,         \* a value, its serialization and what is read back from it
  api,           \* a FunaiNodeApi instance and its running waitForInferenceResult call
  task           \* a running task / node operation of a FunaiNodeApi, or a framed message

\* The state of one builder call.
builderVars == <<pc, opts, tx, condKeys, feeCalls, nonceCalls, abiCalls, nonceAddress,
                 collabError, error, result>>

vars == <<pc, opts, tx, condKeys, feeCalls, nonceCalls, abiCalls, nonceAddress,
          collabError, error, result, sponsor, pair, chain, codec, api, task>>

\* A part of the SDK that the specification at hand does not exercise.
Unused == [pc |-> "unused"]

\* The errors a collaborator (fee estimation, nonce lookup, ABI fetch) can reject with.
CollabErrors == {"NetworkError", "BadResponse"}

\* The locals of the running call as one record.
Cur ==
  [pc |-> pc, tx |-> tx, condKeys |-> condKeys, feeCalls |-> feeCalls,
   nonceCalls |-> nonceCalls, abiCalls |-> abiCalls, nonceAddress |-> nonceAddress,
   collabError |-> collabError, error |-> error, result |-> result]

Install(s) ==
  /\ pc' = s.pc
  /\ tx' = s.tx
  /\ condKeys' = s.condKeys
  /\ feeCalls' = s.feeCalls
  /\ nonceCalls' = s.nonceCalls
  /\ abiCalls' = s.abiCalls
  /\ nonceAddress' = s.nonceAddress
  /\ collabError' = s.collabError
  /\ error' = s.error
  /\ result' = s.result
  /\ UNCHANGED <<sponsor, pair, chain, codec, api, task>>

\* A thrown error or Promise.reject: the builder promise rejects, nothing is returned.
Reject(s, e) == [s EXCEPT !.pc = "rejected", !.error = Some(e)]

(* ------------------------------------------------------------------ *)
(* The unsigned builders                                                *)
(* ------------------------------------------------------------------ *)

\* Object.assign(defaultOptions, txOptions): fee and nonce default to BigInt(0).
DefaultAmount(option) == IF option = Absent THEN 0 ELSE option[1]

\* A variant that numbers each transaction by a module-level count of the
\* builder calls made so far.
NewTransaction_CallCount(u, hashMode, numSigs, keys) ==
  [authType |-> IF u.sponsored THEN "Sponsored" ELSE "Standard",
   hashMode |-> hashMode,
   signer |-> Hash160(hashMode, numSigs, keys),
   signaturesRequired |-> numSigs,
   fee |-> DefaultAmount(u.fee),
   nonce |-> DefaultAmount(u.nonce)
               + Cardinality({i \in DOMAIN pair.calls : pair.calls[i].s.pc # "idle"}),
   fields |-> <<>>]

\* createSingleSigSpendingCondition / createMultiSigSpendingCondition wrapped by
\* createStandardAuth / createSponsoredAuth into a new FunaiTransactionWire.
NewTransaction(u, hashMode, numSigs, keys) ==
  [authType |-> IF u.sponsored THEN "Sponsored" ELSE "Standard",
   hashMode |-> hashMode,
   signer |-> Hash160(hashMode, numSigs, keys),
   signaturesRequired |-> numSigs,
   fee |-> DefaultAmount(u.fee),
   nonce |-> DefaultAmount(u.nonce),
   fields |-> <<>>]

\* transaction.setFee(fee)
setFee(t, fee) == [t EXCEPT !.fee = fee]

\* transaction.setNonce(txNonce)
setNonce(t, nonce) == [t EXCEPT !.nonce = nonce]

\* return transaction: to the caller, or into the signed builder that awaits it.
UnsignedReturn(u, s) ==
  IF u.signed THEN [s EXCEPT !.pc = "signing"]
              ELSE [s EXCEPT !.pc = "returned", !.result = s.tx]

\* The address handed to fetchNonce.
NonceLookupAddress(u, t) == c32address(addressVersion(u.network).singleSig, t.signer)

\* if (txOptions.nonce == null) { ... await fetchNonce({ address, ...options }) }
NonceStep(u, s) ==
  IF u.nonce = Absent
    THEN [s EXCEPT !.pc = "awaitNonce", !.nonceCalls = @ + 1,
                   !.nonceAddress = Some(NonceLookupAddress(u, s.tx[1]))]
    ELSE UnsignedReturn(u, s)

\* A variant that takes a fee of 0 for an omitted fee (if (!txOptions.fee)).
FeeStep_ZeroIsAbsent(u, s) ==
  IF u.fee = Absent \/ u.fee = Some(0)
    THEN [s EXCEPT !.pc = "awaitFee", !.feeCalls = @ + 1]
    ELSE NonceStep(u, s)

\* if (txOptions.fee == null) { ... await fetchFeeEstimate({ transaction, ...options }) }
FeeStep(u, s) ==
  IF u.fee = Absent
    THEN [s EXCEPT !.pc = "awaitFee", !.feeCalls = @ + 1]
    ELSE NonceStep(u, s)

\* const publicKeys = options.address ? sortPublicKeysForAddress(...) : options.publicKeys
ConditionKeys(u, hashMode) ==
  IF u.address # Absent
    THEN sortPublicKeysForAddress(u.publicKeys, u.numSignatures, hashMode,
                                  createAddressHash160(u.address))
    ELSE [ok |-> TRUE, keys |-> u.publicKeys]

\* A variant that does not resolve the key order when the condition is created.
SpendingConditionStep_NoResolve(u, s) ==
  IF u.publicKey # Absent
    THEN FeeStep(u, [s EXCEPT !.tx = Some(NewTransaction(u, "P2PKH", 1, <<u.publicKey[1]>>))])
  ELSE IF u.kind \in {"Infer", "RegisterModel"}
    THEN Reject(s, "UnsupportedMultiSig")
  ELSE LET hashMode == IF u.useNonSequentialMultiSig THEN "P2SHNonSequential" ELSE "P2SH"
       IN FeeStep(u, [s EXCEPT
                        !.tx = Some(NewTransaction(u, hashMode, u.numSignatures, u.publicKeys)),
                        !.condKeys = u.publicKeys])

\* A variant whose multi-sig branch of the infer / register-model builders
\* goes on with an empty spending condition instead of rejecting.
SpendingConditionStep_NoMultiSigReject(u, s) ==
  IF u.publicKey # Absent
    THEN FeeStep(u, [s EXCEPT !.tx = Some(NewTransaction(u, "P2PKH", 1, <<u.publicKey[1]>>))])
  ELSE IF u.kind \in {"Infer", "RegisterModel"}
    THEN FeeStep(u, [s EXCEPT !.tx = Some(NewTransaction(u, "P2SH", 0, <<>>))])
  ELSE LET hashMode == IF u.useNonSequentialMultiSig THEN "P2SHNonSequential" ELSE "P2SH"
           keys == ConditionKeys(u, hashMode)
       IN IF ~keys.ok
            THEN Reject(s, "AddressKeyMismatch")
            ELSE FeeStep(u, [s EXCEPT
                   !.tx = Some(NewTransaction(u, hashMode, u.numSignatures, keys.keys)),
                   !.condKeys = keys.keys])

\* if ('publicKey' in options) { single-sig } else { multi-sig }, then the
\* authorization and the transaction, then the fee and nonce steps.
SpendingConditionStep(u, s) ==
  IF u.publicKey # Absent
    THEN FeeStep(u, [s EXCEPT !.tx = Some(NewTransaction(u, "P2PKH", 1, <<u.publicKey[1]>>))])
  ELSE IF u.kind \in {"Infer", "RegisterModel"}
    THEN Reject(s, "UnsupportedMultiSig")
  ELSE LET hashMode == IF u.useNonSequentialMultiSig THEN "P2SHNonSequential" ELSE "P2SH"
           keys == ConditionKeys(u, hashMode)
       IN IF ~keys.ok
            THEN Reject(s, "AddressKeyMismatch")
            ELSE FeeStep(u, [s EXCEPT
                   !.tx = Some(NewTransaction(u, hashMode, u.numSignatures, keys.keys)),
                   !.condKeys = keys.keys])

\* A variant that fetches the ABI also when the caller supplies one.
UnsignedBuilder_FetchGivenAbi(u, s) ==
  IF u.kind = "ContractCall" /\ u.validateWithAbi # "none"
    THEN [s EXCEPT !.pc = "awaitAbi", !.abiCalls = @ + 1]
    ELSE SpendingConditionStep(u, s)

\* makeUnsignedContractCall: if (options?.validateWithAbi) { abi = await fetchAbi(...) }
\* The other builders go straight to the spending condition.
UnsignedBuilder(u, s) ==
  IF u.kind = "ContractCall" /\ u.validateWithAbi = "fetch"
    THEN [s EXCEPT !.pc = "awaitAbi", !.abiCalls = @ + 1]
    ELSE SpendingConditionStep(u, s)

(* ------------------------------------------------------------------ *)
(* The signed builders                                                  *)
(* ------------------------------------------------------------------ *)

\* if ('senderKey' in txOptions) { single-sig: await makeUnsigned...({ publicKey, ...options }) }
\* else { multi-sig: await makeUnsigned...(options), or Promise.reject for infer / register-model }
SignedBuilder(o, s) ==
  IF o.senderKey # Absent
    THEN UnsignedBuilder(UnsignedOptions(o), s)
  ELSE IF o.kind \in {"Infer", "RegisterModel"}
    THEN Reject(s, "UnsupportedMultiSig")
  ELSE UnsignedBuilder(UnsignedOptions(o), s)

\* The code of a signed builder after its unsigned builder has resolved:
\* signer.signOrigin(privKey), or mutatingSignAppendMultiSig(...); return transaction.
SignStep(o, s) ==
  IF o.senderKey # Absent
    THEN LET signed == [s.tx[1] EXCEPT !.fields = signOrigin(@, o.senderKey[1])]
         IN [s EXCEPT !.pc = "returned", !.tx = Some(signed), !.result = Some(signed)]
    ELSE LET r == mutatingSignAppendMultiSig(s.tx[1], o.publicKeys, o.signerKeys, o.address)
         IN IF r.ok
              THEN [s EXCEPT !.pc = "returned", !.tx = Some(r.tx), !.result = Some(r.tx)]
              ELSE Reject(s, r.error)

(* ------------------------------------------------------------------ *)
(* Continuations after the awaited collaborators                        *)
(* ------------------------------------------------------------------ *)

\* abi = await fetchAbi(...) resolved; validateContractCall(payload, abi) passes.
OnAbiResolved(u, s) == SpendingConditionStep(u, s)

\* A variant that signs as soon as the fee is known, before the nonce step.
OnFeeResolved_SignEarly(u, s, fee) ==
  NonceStep(u, [s EXCEPT !.tx = Some([setFee(s.tx[1], fee) EXCEPT
     !.fields = IF u.signed /\ u.publicKey # Absent
                  THEN appendOrigin(@, u.publicKey[1]) ELSE @])])

\* const fee = await fetchFeeEstimate(...) resolved: transaction.setFee(fee), then the nonce step.
OnFeeResolved(u, s, fee) ==
  NonceStep(u, [s EXCEPT !.tx = Some(setFee(s.tx[1], fee))])

\* const txNonce = await fetchNonce(...) resolved: transaction.setNonce(txNonce); return transaction.
OnNonceResolved(u, s, nonce) ==
  UnsignedReturn(u, [s EXCEPT !.tx = Some(setNonce(s.tx[1], nonce))])

\* A variant that falls back to the default fee when the estimation fails.
OnFeeRejected_Fallback(u, s, e) == NonceStep(u, s)

\* await fetchFeeEstimate(...) rejected: the error leaves the async builder.
OnFeeRejected(u, s, e) == Reject(s, e)

\* await fetchNonce(...) rejected: the error leaves the async builder.
OnNonceRejected(u, s, e) == Reject(s, e)

\* await fetchAbi(...) rejected: the error leaves the async builder.
OnAbiRejected(u, s, e) == Reject(s, e)

(* ------------------------------------------------------------------ *)
(* Actions                                                              *)
(* ------------------------------------------------------------------ *)

\* No builder call has been made.
BuilderIdle ==
  /\ pc = "idle"
  /\ opts = Absent
  /\ tx = Absent
  /\ condKeys = <<>>
  /\ feeCalls = 0
  /\ nonceCalls = 0
  /\ abiCalls = 0
  /\ nonceAddress = Absent
  /\ collabError = Absent
  /\ error = Absent
  /\ result = Absent

Init ==
  /\ BuilderIdle
  /\ sponsor = Unused
  /\ pair = Unused
  /\ chain = Unused
  /\ codec = Unused
  /\ api = Unused
  /\ task = Unused

\* A caller invokes an unsigned builder: the code up to its first await or its settlement.
CallUnsigned(kind) ==
  /\ pc = "idle"
  /\ \E o \in TxOptions(kind, FALSE) :
       /\ opts' = Some(o)
       /\ Install(UnsignedBuilder(o, Cur))

\* A caller invokes a signed builder.
CallSigned(kind) ==
  /\ pc = "idle"
  /\ \E o \in TxOptions(kind, TRUE) :
       /\ opts' = Some(o)
       /\ Install(SignedBuilder(o, Cur))

makeUnsignedFunaiTokenTransfer == CallUnsigned("TokenTransfer")

makeUnsignedContractDeploy == CallUnsigned("ContractDeploy")

makeUnsignedContractCall == CallUnsigned("ContractCall")

makeUnsignedInfer == CallUnsigned("Infer")

makeUnsignedRegisterModel == CallUnsigned("RegisterModel")

makeFunaiTokenTransfer == CallSigned("TokenTransfer")

makeContractDeploy == CallSigned("ContractDeploy")

makeContractCall == CallSigned("ContractCall")

makeInfer == CallSigned("Infer")

makeRegisterModel == CallSigned("RegisterModel")

\* The options as the running unsigned builder sees them.
U == UnsignedOptions(opts[1])

AbiResolve ==
  /\ pc = "awaitAbi"
  /\ Install(OnAbiResolved(U, Cur))
  /\ UNCHANGED opts

AbiReject ==
  /\ pc = "awaitAbi"
  /\ \E e \in CollabErrors :
       Install(OnAbiRejected(U, [Cur EXCEPT !.collabError = Some([from |-> "abi", error |-> e])], e))
  /\ UNCHANGED opts

FeeResolve ==
  /\ pc = "awaitFee"
  /\ \E fee \in Amounts : Install(OnFeeResolved(U, Cur, fee))
  /\ UNCHANGED opts

FeeReject ==
  /\ pc = "awaitFee"
  /\ \E e \in CollabErrors :
       Install(OnFeeRejected(U, [Cur EXCEPT !.collabError = Some([from |-> "fee", error |-> e])], e))
  /\ UNCHANGED opts

NonceResolve ==
  /\ pc = "awaitNonce"
  /\ \E nonce \in Amounts : Install(OnNonceResolved(U, Cur, nonce))
  /\ UNCHANGED opts

NonceReject ==
  /\ pc = "awaitNonce"
  /\ \E e \in CollabErrors :
       Install(OnNonceRejected(U, [Cur EXCEPT !.collabError = Some([from |-> "nonce", error |-> e])], e))
  /\ UNCHANGED opts

\* The signed builder resumes after `await makeUnsigned...` and signs.
Sign ==
  /\ pc = "signing"
  /\ Install(SignStep(opts[1], Cur))
  /\ UNCHANGED opts

Next ==
  \/ makeUnsignedFunaiTokenTransfer
  \/ makeUnsignedContractDeploy
  \/ makeUnsignedContractCall
  \/ makeUnsignedInfer
  \/ makeUnsignedRegisterModel
  \/ makeFunaiTokenTransfer
  \/ makeContractDeploy
  \/ makeContractCall
  \/ makeInfer
  \/ makeRegisterModel
  \/ AbiResolve
  \/ AbiReject
  \/ FeeResolve
  \/ FeeReject
  \/ NonceResolve
  \/ NonceReject
  \/ Sign

Spec == Init /\ [][Next]_vars

(* ------------------------------------------------------------------ *)
(* Properties                                                           *)
(* ------------------------------------------------------------------ *)

\* The caller's options and the transaction of the running call.
O == opts[1]

T == tx[1]

Called == pc # "idle"

\* The call handed multi-sig options to a builder that has a multi-sig path.
MultiSigCall == Called /\ O.publicKey = Absent /\ O.senderKey = Absent /\ O.publicKeys # <<>>

\* The hash mode the multi-sig options select.
OptionHashMode == IF O.useNonSequentialMultiSig THEN "P2SHNonSequential" ELSE "P2SH"

\* ks derives the hash160 of the address option.
MatchesAddress(ks) ==
  Hash160(OptionHashMode, O.numSignatures, ks) = createAddressHash160(O.address)

IsAscending(ks) == \A i, j \in 1..Len(ks) : i < j => ks[i] <= ks[j]

IsPermutation(a, b) ==
  /\ Len(a) = Len(b)
  /\ \A k \in PublicKeys :
       Cardinality({i \in 1..Len(a) : a[i] = k}) = Cardinality({i \in 1..Len(b) : b[i] = k})

\* The orders of the given keys that are ascending by byte value.
AscendingOrders == {ks \in KeyLists : IsPermutation(ks, O.publicKeys) /\ IsAscending(ks)}

MismatchRejected == pc = "rejected" /\ error = Some("AddressKeyMismatch")

\* C1: key-order resolution against an address yields the as-given order when
\* its hash equals the target (also when the sorted order matches too),
\* otherwise the ascending order when that one's hash equals the target, and
\* otherwise fails with the address/key mismatch error.
C1_KeyOrderResolution ==
  (MultiSigCall /\ O.address # Absent) =>
    /\ MatchesAddress(O.publicKeys) =>
         (tx # Absent /\ condKeys = O.publicKeys)
    /\ (~MatchesAddress(O.publicKeys) /\ \E ks \in AscendingOrders : MatchesAddress(ks)) =>
         (tx # Absent /\ condKeys \in AscendingOrders /\ MatchesAddress(condKeys))
    /\ (~MatchesAddress(O.publicKeys) /\ \A ks \in AscendingOrders : ~MatchesAddress(ks)) =>
         (tx = Absent /\ MismatchRejected)

\* C1 witness: the given order does not match, the sorted order does and is selected.
C1_Witness ==
  /\ MultiSigCall /\ O.address # Absent
  /\ tx # Absent
  /\ condKeys # O.publicKeys
  /\ ~MatchesAddress(O.publicKeys)
  /\ MatchesAddress(condKeys)

\* No signature field exists anywhere in the call.
NoSignatureComputed == tx = Absent \/ NumSignatureFields(T.fields) = 0

\* C2: an infer or register-model builder called with neither publicKey nor
\* senderKey rejects with the unsupported-multi-sig rejection; no signature is
\* computed, no fee or nonce collaborator is called, no transaction is returned.
C2_MultiSigInferRejected ==
  (Called /\ O.kind \in {"Infer", "RegisterModel"}
          /\ O.publicKey = Absent /\ O.senderKey = Absent) =>
    /\ pc = "rejected"
    /\ error = Some("UnsupportedMultiSig")
    /\ NoSignatureComputed
    /\ feeCalls = 0
    /\ nonceCalls = 0
    /\ result = Absent

\* C2 witness: makeUnsignedInfer without publicKey and without fee has rejected.
C2_Witness ==
  /\ Called /\ O.kind = "Infer" /\ ~O.signed
  /\ O.publicKey = Absent /\ O.fee = Absent
  /\ pc = "rejected" /\ error = Some("UnsupportedMultiSig")

\* The unsigned builder has resolved (to the caller or into its signed builder).
UnsignedResolved == pc \in {"signing", "returned"}

\* C3: the fee collaborator is called exactly when the fee option is omitted
\* and the nonce collaborator exactly when the nonce option is omitted; a
\* supplied fee or nonce (0 included) causes no call and is the value the
\* returned transaction carries.
C3_CollaboratorsOnlyForOmitted ==
  Called =>
    /\ feeCalls > 0 => O.fee = Absent
    /\ nonceCalls > 0 => O.nonce = Absent
    /\ UnsignedResolved =>
         /\ feeCalls = (IF O.fee = Absent THEN 1 ELSE 0)
         /\ nonceCalls = (IF O.nonce = Absent THEN 1 ELSE 0)
         /\ O.fee # Absent => T.fee = O.fee[1]
         /\ O.nonce # Absent => T.nonce = O.nonce[1]
    /\ result # Absent =>
         /\ O.fee # Absent => result[1].fee = O.fee[1]
         /\ O.nonce # Absent => result[1].nonce = O.nonce[1]

\* C3 witness: an unsigned builder returned with an explicit fee of 0 and an
\* omitted nonce: no fee estimation, one nonce lookup.
C3_Witness ==
  /\ pc = "returned" /\ ~O.signed
  /\ O.fee = Some(0) /\ O.nonce = Absent
  /\ feeCalls = 0 /\ nonceCalls = 1
  /\ result[1].fee = 0

SignedMultiSigReturned == MultiSigCall /\ O.signed /\ pc = "returned"

\* C4: a signed multi-sig builder appends the fields in the key order the
\* origin condition's signer hash was built from (the as-given order without
\* an address): field i belongs to key i, and the keys recovered from the
\* fields reproduce the signer hash.
C4_FieldsInConditionOrder ==
  SignedMultiSigReturned =>
    /\ FieldKeys(result[1].fields) = condKeys
    /\ Hash160(result[1].hashMode, result[1].signaturesRequired,
               FieldKeys(result[1].fields)) = result[1].signer
    /\ O.address = Absent => condKeys = O.publicKeys

\* C4 witness: a signed multi-sig transaction whose address selected the
\* sorted order, with a signature among its fields.
C4_Witness ==
  /\ SignedMultiSigReturned
  /\ O.address # Absent
  /\ condKeys # O.publicKeys
  /\ NumSignatureFields(result[1].fields) > 0

\* The signer keys of the caller that correspond to a public key.
SignerKeysOf(publicKey) == {k \in O.signerKeys : privateKeyToPublic(k) = publicKey}

\* C5: the convenience signing path appends exactly one field per member key:
\* a signature made with the corresponding signer key when one was supplied,
\* the member's raw public key otherwise.
C5_OneFieldPerMember ==
  SignedMultiSigReturned =>
    /\ Len(result[1].fields) = Len(O.publicKeys)
    /\ Len(result[1].fields) = Len(condKeys)
    /\ \A i \in 1..Len(condKeys) :
         IF SignerKeysOf(condKeys[i]) # {}
           THEN /\ result[1].fields[i].type = "signature"
                /\ result[1].fields[i].signedBy \in SignerKeysOf(condKeys[i])
           ELSE /\ result[1].fields[i].type = "publicKey"
                /\ result[1].fields[i].pub = condKeys[i]

\* C5 witness: a returned transaction with a signature field and a raw public-key field.
C5_Witness ==
  /\ SignedMultiSigReturned
  /\ \E i, j \in 1..Len(result[1].fields) :
       /\ result[1].fields[i].type = "signature"
       /\ result[1].fields[j].type = "publicKey"

\* C6: a transaction returned by a signed multi-sig builder holds at least
\* numSignatures signature fields.
C6_AllRequiredSignatures ==
  SignedMultiSigReturned =>
    NumSignatureFields(result[1].fields) >= result[1].signaturesRequired

HasFields(t) == t # Absent /\ t[1].fields # <<>>

\* C7: in a signed builder every collaborator call and every fee / nonce
\* update precedes the first appended field: a step that leaves the
\* transaction with fields leaves the builder awaiting no collaborator and
\* changes neither fee nor nonce nor the number of collaborator calls.
C7_FeeNonceBeforeSigning ==
  [][HasFields(tx') =>
       /\ pc' \notin {"awaitAbi", "awaitFee", "awaitNonce"}
       /\ tx # Absent
       /\ tx'[1].fee = tx[1].fee
       /\ tx'[1].nonce = tx[1].nonce
       /\ feeCalls' = feeCalls
       /\ nonceCalls' = nonceCalls]_vars

\* C7 witness: a signed builder returned a signed transaction after one fee
\* estimation and one nonce lookup.
C7_Witness ==
  /\ pc = "returned" /\ O.signed
  /\ feeCalls = 1 /\ nonceCalls = 1
  /\ HasFields(result)

\* C8: when fee estimation or nonce lookup fails, the builder rejects with
\* that very error, the failed collaborator is not called again, nothing is
\* signed and no transaction is returned.
C8_CollaboratorFailurePropagates ==
  (collabError # Absent /\ collabError[1].from \in {"fee", "nonce"}) =>
    /\ pc = "rejected"
    /\ error = Some(collabError[1].error)
    /\ feeCalls <= 1
    /\ nonceCalls <= 1
    /\ collabError[1].from = "fee" => nonceCalls = 0
    /\ ~HasFields(tx)
    /\ result = Absent

\* C8 witness: the nonce lookup failed inside a signed builder after a
\* successful fee estimation.
C8_Witness ==
  /\ Called /\ O.signed
  /\ collabError # Absent /\ collabError[1].from = "nonce"
  /\ feeCalls = 1
  /\ pc = "rejected"

\* The address option matches neither the as-given nor the sorted key order.
AddressMatchesNoOrder ==
  /\ MultiSigCall /\ O.address # Absent
  /\ ~MatchesAddress(O.publicKeys)
  /\ ~MatchesAddress(SortKeys(O.publicKeys))

OriginAddress(network, t) ==
  c32address(IF isSingleSig(t) THEN addressVersion(network).singleSig
                               ELSE addressVersion(network).multiSig,
             t.signer)

\* C10: the address passed to the nonce lookup is the address of the origin
\* account, for single-sig and multi-sig origins alike.
C10_NonceLookupOfOriginAddress ==
  nonceAddress # Absent => nonceAddress[1] = OriginAddress(O.network, T)

(* ------------------------------------------------------------------ *)
(* sponsorTransaction                                                   *)
(* ------------------------------------------------------------------ *)

AllHashModes == SingleSigHashModes \cup MultiSigHashModes

\* The payload types an origin-signed transaction handed to a sponsor can carry.
PayloadTypes ==
  {"TokenTransfer", "SmartContract", "VersionedSmartContract", "ContractCall",
   "Infer", "RegisterModel"}

\* The payload types the fee switch of sponsorTransaction estimates a fee for.
SponsorablePayloadTypes ==
  {"TokenTransfer", "SmartContract", "VersionedSmartContract", "ContractCall"}

\* createSingleSigSpendingCondition(hashMode, pubKey, nonce, fee): a condition
\* of the single-sig shape (one key, one signature slot) with the hash mode it
\* is given.
createSingleSigSpendingCondition(hashMode, pubKey, nonce, fee) ==
  [shape |-> "singleSig", hashMode |-> hashMode,
   signer |-> Hash160(hashMode, 1, <<pubKey>>), nonce |-> nonce, fee |-> fee]

\* transaction.setSponsor(sponsorSpendingCondition)
setSponsor(t, cond) == [t EXCEPT !.sponsor = Some(cond)]

\* signer.signSponsor(privKey): the sponsor's signature commits to the
\* origin-signed transaction and to the sponsor condition the transaction
\* holds when the signature is computed.
signSponsor(t, privKey) ==
  [t EXCEPT !.sponsorSignature =
     Some([signedBy |-> privKey,
           over |-> [fields |-> t.fields, fee |-> t.fee, sponsor |-> t.sponsor]])]

\* A single-sig origin-signed transaction built with sponsored: true, as a
\* signed builder of the given payload type returns it.
SponsoredOrigin(payloadType, network, senderKey, fee, nonce) ==
  [payloadType |-> payloadType, network |-> network, authType |-> "Sponsored",
   hashMode |-> "P2PKH",
   signer |-> Hash160("P2PKH", 1, <<privateKeyToPublic(senderKey)>>),
   signaturesRequired |-> 1, fee |-> fee, nonce |-> nonce,
   fields |-> signOrigin(<<>>, senderKey),
   sponsor |-> Absent, sponsorSignature |-> Absent]

OriginTransactions ==
  {SponsoredOrigin(p, net, k, f, 0) :
     p \in PayloadTypes, net \in Networks, k \in PrivateKeys, f \in Amounts}

\* sponsorAddressHashmode?: AddressHashMode
HashModeOptions == {Absent} \cup {Some(h) : h \in AllHashModes}

\* network?: FunaiNetworkName | FunaiNetwork
NetworkOptions == {Absent} \cup {Some(n) : n \in Networks}

\* SponsorOptionsOpts
SponsorOptions ==
  {[transaction |-> t, sponsorPrivateKey |-> k, fee |-> f, sponsorNonce |-> n,
    sponsorAddressHashmode |-> h, network |-> net] :
      t \in OriginTransactions, k \in PrivateKeys, f \in AmountOptions,
      n \in AmountOptions, h \in HashModeOptions, net \in NetworkOptions}

\* deriveNetworkFromTx(transaction)
deriveNetworkFromTx(t) == t.network

\* The state of a sponsorTransaction call before it is made.
SponsorIdle ==
  [pc |-> "idle", options |-> Absent, transaction |-> Absent, fee |-> 0,
   sponsorNonce |-> 0, sponsorAddressHashmode |-> "P2PKH", network |-> "mainnet",
   feeCalls |-> 0, nonceCalls |-> 0, nonceAddress |-> Absent, log |-> <<>>,
   error |-> Absent, result |-> Absent]

\* const options = Object.assign(defaultOptions, sponsorOptions);
\* options.network = networkFrom(options.network)
SponsorDefaults(so) ==
  [SponsorIdle EXCEPT
     !.pc = "running",
     !.options = Some(so),
     !.transaction = Some(so.transaction),
     !.fee = DefaultAmount(so.fee),
     !.sponsorNonce = DefaultAmount(so.sponsorNonce),
     !.sponsorAddressHashmode =
        IF so.sponsorAddressHashmode = Absent THEN "P2PKH" ELSE so.sponsorAddressHashmode[1],
     !.network = IF so.network = Absent THEN deriveNetworkFromTx(so.transaction)
                                       ELSE so.network[1]]

\* A variant that computes the sponsor signature before the condition is attached.
SponsorFinish_SignFirst(so, s) ==
  LET sponsorPubKey == privateKeyToPublic(so.sponsorPrivateKey)
      sponsorSpendingCondition ==
        createSingleSigSpendingCondition(s.sponsorAddressHashmode, sponsorPubKey,
                                         s.sponsorNonce, s.fee)
      signed == setSponsor(signSponsor(s.transaction[1], so.sponsorPrivateKey),
                           sponsorSpendingCondition)
  IN [s EXCEPT !.pc = "returned", !.transaction = Some(signed), !.result = Some(signed),
               !.log = @ \o <<"signSponsor", "setSponsor">>]

\* createSingleSigSpendingCondition(...); options.transaction.setSponsor(...);
\* createSponsorSigner(...); signer.signSponsor(privKey); return signer.transaction
SponsorFinish(so, s) ==
  LET sponsorPubKey == privateKeyToPublic(so.sponsorPrivateKey)
      sponsorSpendingCondition ==
        createSingleSigSpendingCondition(s.sponsorAddressHashmode, sponsorPubKey,
                                         s.sponsorNonce, s.fee)
      signed == signSponsor(setSponsor(s.transaction[1], sponsorSpendingCondition),
                            so.sponsorPrivateKey)
  IN [s EXCEPT !.pc = "returned", !.transaction = Some(signed), !.result = Some(signed),
               !.log = @ \o <<"setSponsor", "signSponsor">>]

\* publicKeyToAddress(options.network.addressVersion.singleSig, sponsorPubKey)
SponsorNonceAddress(so, s) ==
  c32address(addressVersion(s.network).singleSig,
             Hash160("P2PKH", 1, <<privateKeyToPublic(so.sponsorPrivateKey)>>))

\* if (sponsorOptions.sponsorNonce == null) { ... await fetchNonce({ address, ...options }) }
SponsorNonceStep(so, s) ==
  IF so.sponsorNonce = Absent
    THEN [s EXCEPT !.pc = "awaitNonce", !.nonceCalls = @ + 1,
                   !.nonceAddress = Some(SponsorNonceAddress(so, s)),
                   !.log = Append(@, "fetchNonce")]
    ELSE SponsorFinish(so, s)

\* if (sponsorOptions.fee == null) { switch (payloadType) { ... await fetchFeeEstimate ... } }
SponsorFeeStep(so, s) ==
  IF so.fee = Absent
    THEN IF so.transaction.payloadType \in SponsorablePayloadTypes
           THEN [s EXCEPT !.pc = "awaitFee", !.feeCalls = @ + 1,
                          !.log = Append(@, "fetchFeeEstimate")]
           ELSE [s EXCEPT !.pc = "rejected", !.error = Some("SponsorNotSupported")]
    ELSE SponsorNonceStep(so, s)

\* txFee = BigInt(await fetchFeeEstimate(...)) resolved:
\* options.transaction.setFee(txFee); options.fee = txFee
OnSponsorFeeResolved(so, s, txFee) ==
  SponsorNonceStep(so, [s EXCEPT !.transaction = Some(setFee(s.transaction[1], txFee)),
                                 !.fee = txFee,
                                 !.log = Append(@, "setFee")])

\* const sponsorNonce = await fetchNonce(...) resolved: options.sponsorNonce = sponsorNonce
OnSponsorNonceResolved(so, s, sponsorNonce) ==
  SponsorFinish(so, [s EXCEPT !.sponsorNonce = sponsorNonce])

\* An awaited collaborator rejected: the error leaves sponsorTransaction.
OnSponsorCollaboratorRejected(so, s, e) ==
  [s EXCEPT !.pc = "rejected", !.error = Some(e)]

SponsorInit ==
  /\ BuilderIdle
  /\ sponsor = SponsorIdle
  /\ pair = Unused
  /\ chain = Unused
  /\ codec = Unused
  /\ api = Unused
  /\ task = Unused

SO == sponsor.options[1]

\* A sponsor calls sponsorTransaction: the code up to its first await or its settlement.
sponsorTransaction ==
  /\ sponsor.pc = "idle"
  /\ \E so \in SponsorOptions : sponsor' = SponsorFeeStep(so, SponsorDefaults(so))
  /\ UNCHANGED <<builderVars, pair, chain, codec, api, task>>

SponsorFeeResolve ==
  /\ sponsor.pc = "awaitFee"
  /\ \E txFee \in Amounts : sponsor' = OnSponsorFeeResolved(SO, sponsor, txFee)
  /\ UNCHANGED <<builderVars, pair, chain, codec, api, task>>

SponsorFeeReject ==
  /\ sponsor.pc = "awaitFee"
  /\ \E e \in CollabErrors : sponsor' = OnSponsorCollaboratorRejected(SO, sponsor, e)
  /\ UNCHANGED <<builderVars, pair, chain, codec, api, task>>

SponsorNonceResolve ==
  /\ sponsor.pc = "awaitNonce"
  /\ \E n \in Amounts : sponsor' = OnSponsorNonceResolved(SO, sponsor, n)
  /\ UNCHANGED <<builderVars, pair, chain, codec, api, task>>

SponsorNonceReject ==
  /\ sponsor.pc = "awaitNonce"
  /\ \E e \in CollabErrors : sponsor' = OnSponsorCollaboratorRejected(SO, sponsor, e)
  /\ UNCHANGED <<builderVars, pair, chain, codec, api, task>>

SponsorNext ==
  \/ sponsorTransaction
  \/ SponsorFeeResolve
  \/ SponsorFeeReject
  \/ SponsorNonceResolve
  \/ SponsorNonceReject

SponsorSpec == SponsorInit /\ [][SponsorNext]_vars

(* ------------------------------------------------------------------ *)
(* Properties of sponsorTransaction                                     *)
(* ------------------------------------------------------------------ *)

\* The caller's transaction object as the running sponsorTransaction call has left it.
ST == sponsor.transaction[1]

SponsorAttached == sponsor.transaction # Absent /\ ST.sponsor # Absent

\* C11: every spending condition created has a hash mode consistent with its
\* kind: a condition of the single-sig shape carries a single-sig hash mode
\* (and a multi-sig condition a multi-sig one), whatever sponsorAddressHashmode
\* the caller of sponsorTransaction passes.
C11_HashModeMatchesKind ==
  SponsorAttached =>
    (ST.sponsor[1].shape = "singleSig" <=> ST.sponsor[1].hashMode \in SingleSigHashModes)

\* The positions of an event in the log of a sponsorTransaction call.
LogPositions(e) == {i \in 1..Len(sponsor.log) : sponsor.log[i] = e}

Before(a, b) == \A i \in LogPositions(a), j \in LogPositions(b) : i < j

\* C12: in sponsorTransaction the sponsor condition is attached (setSponsor)
\* strictly before the sponsor signature is computed, sponsor signing never
\* runs on a transaction whose sponsor condition has not been set, and the
\* sponsor's fee and nonce are fixed (supplied or fetched) before the
\* condition is attached.
C12_SponsorSetBeforeSigning ==
  /\ (sponsor.transaction # Absent /\ ST.sponsorSignature # Absent) =>
       /\ ST.sponsorSignature[1].over.sponsor # Absent
       /\ ST.sponsorSignature[1].over.sponsor = ST.sponsor
       /\ LogPositions("setSponsor") # {}
  /\ Before("setSponsor", "signSponsor")
  /\ Before("fetchFeeEstimate", "setSponsor")
  /\ Before("setFee", "setSponsor")
  /\ Before("fetchNonce", "setSponsor")
  /\ SponsorAttached =>
       /\ ST.sponsor[1].fee = sponsor.fee
       /\ ST.sponsor[1].nonce = sponsor.sponsorNonce
       /\ SO.fee # Absent => ST.sponsor[1].fee = SO.fee[1] /\ sponsor.feeCalls = 0
       /\ SO.fee = Absent => sponsor.feeCalls = 1 /\ LogPositions("setFee") # {}
       /\ SO.sponsorNonce # Absent =>
            ST.sponsor[1].nonce = SO.sponsorNonce[1] /\ sponsor.nonceCalls = 0
       /\ SO.sponsorNonce = Absent =>
            sponsor.nonceCalls = 1 /\ LogPositions("fetchNonce") # {}

\* C12 witness: a call that fetched both the fee and the nonce has attached the
\* condition with the fetched values and signed over it.
C12_Witness ==
  /\ sponsor.pc = "returned"
  /\ SO.fee = Absent /\ SO.sponsorNonce = Absent
  /\ ST.sponsor # Absent
  /\ ST.sponsor[1].fee = MaxAmount /\ ST.sponsor[1].nonce = MaxAmount
  /\ ST.sponsorSignature # Absent
  /\ sponsor.log = <<"fetchFeeEstimate", "setFee", "fetchNonce", "setSponsor", "signSponsor">>

(* ------------------------------------------------------------------ *)
(* Two builder calls in flight at once                                  *)
(* ------------------------------------------------------------------ *)

CallIds == {1, 2}

\* The objects the two calls allocate or are handed: the txOptions object each
\* caller passes, and the defaultOptions literal each call creates.
ObjectIds == {"txOptions1", "txOptions2", "defaultOptions1", "defaultOptions2"}

\* txOptions: the object the caller of call i passes.
CallerObject(i) == IF i = 1 THEN "txOptions1" ELSE "txOptions2"

\* A variant whose defaultOptions is one module-level object all calls assign to.
OptionsObject_ModuleLevel(i) == "defaultOptions1"

\* const defaultOptions = { ... }: an object literal evaluated inside the
\* builder, so each call has its own.
OptionsObject(i) == IF i = 1 THEN "defaultOptions1" ELSE "defaultOptions2"

\* Object.assign(target, source): the source's properties are written onto the
\* target, the source is not written.
ObjectAssign(heap, target, source) == [heap EXCEPT ![target] = heap[source]]

\* FUNAI_MAINNET / FUNAI_TESTNET as module-level objects.
NetworkConstants == [n \in Networks |-> addressVersion(n)]

\* The locals of a builder call that has not started.
IdleCall ==
  [pc |-> "idle", tx |-> Absent, condKeys |-> <<>>, feeCalls |-> 0,
   nonceCalls |-> 0, abiCalls |-> 0, nonceAddress |-> Absent,
   collabError |-> Absent, error |-> Absent, result |-> Absent]

\* The options of the calls that are interleaved: single-sig token transfers
\* and contract calls (the latter fetching the ABI first), unsigned and signed.
PairOptions ==
  {o \in SingleSigOptions("TokenTransfer", FALSE) \cup SingleSigOptions("TokenTransfer", TRUE)
       \cup SingleSigOptions("ContractCall", FALSE) \cup SingleSigOptions("ContractCall", TRUE) :
     /\ o.fee \in {Absent, Some(MaxAmount)}
     /\ o.nonce \in {Absent, Some(MaxAmount)}
     /\ ~o.sponsored
     /\ o.validateWithAbi = (IF o.kind = "ContractCall" THEN "fetch" ELSE "none")}

\* The options as the running builder of call i reads them (its `options` object).
PairU(p, i) == UnsignedOptions(p.heap[OptionsObject(i)][1])

\* Some other call is suspended at an await.
OtherSuspended(p, i) ==
  \E j \in CallIds \ {i} : p.calls[j].s.pc \in {"awaitAbi", "awaitFee", "awaitNonce", "signing"}

Resume(p, i, s) ==
  [p EXCEPT !.calls[i].s = s, !.overlap = @ \/ OtherSuspended(p, i)]

\* The caller of call i builds its options object and invokes the builder:
\* Object.assign(defaultOptions, txOptions), then the code up to the first await.
PairInvoke(p, i, o) ==
  LET held == [p.heap EXCEPT ![CallerObject(i)] = Some(o)]
      heap == ObjectAssign(held, OptionsObject(i), CallerObject(i))
      own == heap[OptionsObject(i)][1]
      s == IF o.signed THEN SignedBuilder(own, IdleCall)
                       ELSE UnsignedBuilder(UnsignedOptions(own), IdleCall)
  IN [p EXCEPT !.heap = heap,
               !.calls[i] = [s |-> s, given |-> Some(o), feeAnswer |-> 0, nonceAnswer |-> 0],
               !.overlap = @ \/ OtherSuspended(p, i)]

\* The builder call with options o run on its own, its collaborators
\* answering fee and nonce.
RunAlone(o, fee, nonce) ==
  LET u == UnsignedOptions(o)
      s0 == IF o.signed THEN SignedBuilder(o, IdleCall) ELSE UnsignedBuilder(u, IdleCall)
      s1 == IF s0.pc = "awaitAbi" THEN OnAbiResolved(u, s0) ELSE s0
      s2 == IF s1.pc = "awaitFee" THEN OnFeeResolved(u, s1, fee) ELSE s1
      s3 == IF s2.pc = "awaitNonce" THEN OnNonceResolved(u, s2, nonce) ELSE s2
  IN IF s3.pc = "signing" THEN SignStep(o, s3) ELSE s3

PairIdle ==
  [heap |-> [id \in ObjectIds |-> Absent],
   networks |-> NetworkConstants,
   calls |-> [i \in CallIds |->
                [s |-> IdleCall, given |-> Absent, feeAnswer |-> 0, nonceAnswer |-> 0]],
   overlap |-> FALSE]

PairInit ==
  /\ BuilderIdle
  /\ sponsor = Unused
  /\ pair = PairIdle
  /\ chain = Unused
  /\ codec = Unused
  /\ api = Unused
  /\ task = Unused

PairCall ==
  \E i \in CallIds :
    /\ pair.calls[i].s.pc = "idle"
    /\ \E o \in PairOptions : pair' = PairInvoke(pair, i, o)
    /\ UNCHANGED <<builderVars, sponsor, chain, codec, api, task>>

PairAbiResolve ==
  \E i \in CallIds :
    /\ pair.calls[i].s.pc = "awaitAbi"
    /\ pair' = Resume(pair, i, OnAbiResolved(PairU(pair, i), pair.calls[i].s))
    /\ UNCHANGED <<builderVars, sponsor, chain, codec, api, task>>

PairFeeResolve ==
  \E i \in CallIds :
    /\ pair.calls[i].s.pc = "awaitFee"
    /\ \E fee \in Amounts :
         pair' = [Resume(pair, i, OnFeeResolved(PairU(pair, i), pair.calls[i].s, fee))
                    EXCEPT !.calls[i].feeAnswer = fee]
    /\ UNCHANGED <<builderVars, sponsor, chain, codec, api, task>>

PairNonceResolve ==
  \E i \in CallIds :
    /\ pair.calls[i].s.pc = "awaitNonce"
    /\ \E nonce \in Amounts :
         pair' = [Resume(pair, i, OnNonceResolved(PairU(pair, i), pair.calls[i].s, nonce))
                    EXCEPT !.calls[i].nonceAnswer = nonce]
    /\ UNCHANGED <<builderVars, sponsor, chain, codec, api, task>>

\* The signed builder of call i resumes with its own txOptions parameter.
PairSign ==
  \E i \in CallIds :
    /\ pair.calls[i].s.pc = "signing"
    /\ pair' = Resume(pair, i, SignStep(pair.heap[CallerObject(i)][1], pair.calls[i].s))
    /\ UNCHANGED <<builderVars, sponsor, chain, codec, api, task>>

PairNext ==
  \/ PairCall
  \/ PairAbiResolve
  \/ PairFeeResolve
  \/ PairNonceResolve
  \/ PairSign

PairSpec == PairInit /\ [][PairNext]_vars

(* ------------------------------------------------------------------ *)
(* Properties of repeated and interleaved builder calls                 *)
(* ------------------------------------------------------------------ *)

\* Both calls ran the same unsigned builder with the same options, fee and
\* nonce supplied, and both have settled.
SameUnsignedCallTwice ==
  /\ pair.calls[1].given # Absent
  /\ pair.calls[1].given = pair.calls[2].given
  /\ ~pair.calls[1].given[1].signed
  /\ pair.calls[1].given[1].fee # Absent
  /\ pair.calls[1].given[1].nonce # Absent
  /\ \A i \in CallIds : pair.calls[i].s.pc \in {"returned", "rejected"}

C14_OnlyFeeAndNonceRequests == abiCalls = 0 /\ pc # "awaitAbi"

\* The call is a contract call told to validate against the published ABI.
FetchesAbi == Called /\ O.kind = "ContractCall" /\ O.validateWithAbi = "fetch"

\* C14 amended: a builder call suspends on an external request only at fee
\* estimation, at nonce lookup and, in the contract-call builders with
\* validateWithAbi === true, at one ABI fetch that is issued first, before the
\* transaction exists and before any fee or nonce request; each of the three
\* requests is issued at most once per call.
C14_SuspensionPoints ==
  /\ pc \in {"idle", "awaitAbi", "awaitFee", "awaitNonce", "signing", "returned", "rejected"}
  /\ abiCalls <= 1 /\ feeCalls <= 1 /\ nonceCalls <= 1
  /\ abiCalls = 1 <=> FetchesAbi
  /\ pc = "awaitAbi" => (tx = Absent /\ feeCalls = 0 /\ nonceCalls = 0)
  /\ pc = "awaitFee" => (feeCalls = 1 /\ nonceCalls = 0 /\ O.fee = Absent)
  /\ pc = "awaitNonce" => (nonceCalls = 1 /\ O.nonce = Absent)

\* C14 witness: a contract call that fetched the ABI, then the fee, then the
\* nonce, has returned.
C14_Witness ==
  /\ pc = "returned"
  /\ abiCalls = 1 /\ feeCalls = 1 /\ nonceCalls = 1

(* ------------------------------------------------------------------ *)
(* Verification of a signed authorization field list                    *)
(* ------------------------------------------------------------------ *)

\* The verifier recomputes the chained sighash from the fields that precede
\* position j in the list it received; a signature verifies when it was made
\* over that sighash (only then does it recover its signer's public key).
VerifiesAt(fields, j) ==
  fields[j].type = "signature" => fields[j].sigHash = SigHashOf(SubSeq(fields, 1, j - 1))

\* The final check of the origin authorization: every signature verifies.
VerifiesAll(fields) == \A j \in 1..Len(fields) : VerifiesAt(fields, j)

\* What a third party can put in place of the field at position i: the raw
\* public key of any member, a signature of any key over the sighash of that
\* position or over the pre-sign hash, or any field of the list itself.
Replacements(fields, i) ==
  ({appendOrigin(<<>>, privateKeyToPublic(k))[1] : k \in PrivateKeys}
     \cup {signOrigin(SubSeq(fields, 1, i - 1), k)[i] : k \in PrivateKeys}
     \cup {signOrigin(<<>>, k)[1] : k \in PrivateKeys}
     \cup {fields[j] : j \in 1..Len(fields)})
  \ {fields[i]}

\* fields with the fields at positions i and j exchanged.
Swap(fields, i, j) == [fields EXCEPT ![i] = fields[j], ![j] = fields[i]]

ChainIdle ==
  [pc |-> "idle", signed |-> <<>>, received |-> <<>>, changedAt |-> 0, verdict |-> <<>>]

ChainInit ==
  /\ BuilderIdle
  /\ sponsor = Unused
  /\ pair = Unused
  /\ chain = ChainIdle
  /\ codec = Unused
  /\ api = Unused
  /\ task = Unused

\* The multi-sig convenience path signs and appends for the members in order.
ChainSignMultiSig ==
  /\ chain.pc = "idle"
  /\ \E pubs \in KeyLists, signerKeys \in SUBSET PrivateKeys :
       LET fields == SignAppendLoop(<<>>, pubs, signerKeys)
       IN chain' = [ChainIdle EXCEPT !.pc = "signed", !.signed = fields, !.received = fields]
  /\ UNCHANGED <<builderVars, sponsor, pair, codec, api, task>>

\* One earlier field is substituted on the way to the verifier.
ChainSubstitute ==
  /\ chain.pc = "signed"
  /\ \E i \in 1..Len(chain.signed) :
       \E r \in Replacements(chain.signed, i) :
         chain' = [chain EXCEPT !.pc = "received", !.received[i] = r, !.changedAt = i]
  /\ UNCHANGED <<builderVars, sponsor, pair, codec, api, task>>

\* Two fields are exchanged on the way to the verifier.
ChainReorder ==
  /\ chain.pc = "signed"
  /\ \E i, j \in 1..Len(chain.signed) :
       /\ i < j
       /\ chain.signed[i] # chain.signed[j]
       /\ chain' = [chain EXCEPT !.pc = "received",
                                 !.received = Swap(chain.signed, i, j), !.changedAt = i]
  /\ UNCHANGED <<builderVars, sponsor, pair, codec, api, task>>

\* The verifier checks every field of the list it received.
ChainVerify ==
  /\ chain.pc \in {"signed", "received"}
  /\ chain' = [chain EXCEPT
                 !.pc = "verified",
                 !.verdict = [j \in 1..Len(chain.received) |-> VerifiesAt(chain.received, j)]]
  /\ UNCHANGED <<builderVars, sponsor, pair, codec, api, task>>

ChainNext ==
  \/ ChainSignMultiSig
  \/ ChainSubstitute
  \/ ChainReorder
  \/ ChainVerify

ChainSpec == ChainInit /\ [][ChainNext]_vars

\* The positions after the changed one that hold a signature.
LaterSignatures ==
  {j \in 1..Len(chain.received) :
     j > chain.changedAt /\ chain.received[j].type = "signature"}

MaxInt == 1

\* Largest number of nodes of a Clarity value (a value nested in an optional,
\* a response, a list or a tuple counts its parts).
MaxSize == 3

\* Longest content (in bytes) of a buffer, a string or a memo.
MaxContent == 1

\* Width in bytes of an integer Clarity value.
IntBytes == 16

\* Width in bytes of the length prefix of buffers, lists and tuples.
LengthBytes == 4

\* Width in bytes of a hash160.
HashBytes == 20

\* Width in bytes of the memo field.
MemoBytes == 34

\* Width in bytes of a message signature (recovery id + signature).
SignatureBytes == 65

\* Width in bytes of a compressed and of an uncompressed public key.
CompressedKeyBytes == 33

UncompressedKeyBytes == 65

\* n as width big-endian bytes, for 0 <= n.
RECURSIVE ToBytes(_, _)
ToBytes(n, width) ==
  IF width = 0 THEN <<>> ELSE Append(ToBytes(n \div 256, width - 1), n % 256)

\* The unsigned integer big-endian bytes stand for.
RECURSIVE FromBytes(_)
FromBytes(bytes) ==
  IF bytes = <<>> THEN 0
  ELSE FromBytes(SubSeq(bytes, 1, Len(bytes) - 1)) * 256 + bytes[Len(bytes)]

Complement(bytes) == [i \in 1..Len(bytes) |-> 255 - bytes[i]]

\* Two's complement of a signed integer in width bytes.
ToSignedBytes(n, width) ==
  IF n >= 0 THEN ToBytes(n, width) ELSE Complement(ToBytes(-n - 1, width))

FromSignedBytes(bytes) ==
  IF bytes[1] >= 128 THEN -FromBytes(Complement(bytes)) - 1 ELSE FromBytes(bytes)

\* bytes[cursor .. cursor + n)
ReadBytes(bytes, cursor, n) == SubSeq(bytes, cursor + 1, cursor + n)

\* trueCV()
trueCV == [type |-> "true"]

\* falseCV()
falseCV == [type |-> "false"]

\* boolCV(bool)
boolCV(bool) == IF bool THEN trueCV ELSE falseCV

\* The bytes a string or buffer content is drawn from (NUL and 'a').
ContentBytes == {0, 97}

Contents == UNION {[1..n -> ContentBytes] : n \in 0..MaxContent}

\* Clarity names: non-empty contents without NUL.
Names == {c \in Contents : c # <<>> /\ \A i \in 1..Len(c) : c[i] # 0}

Hash160s == {[i \in 1..HashBytes |-> i]}

\* Address versions (mainnet single-sig, testnet single-sig).
AddressVersions == {22, 26}

\* A variant of the type tags in which both booleans are written as true.
ClarityWireType_OneBool(type) ==
  CASE type = "int" -> 0
    [] type = "uint" -> 1
    [] type = "buffer" -> 2
    [] type = "true" -> 3
    [] type = "false" -> 3
    [] type = "address" -> 5
    [] type = "contract" -> 6
    [] type = "ok" -> 7
    [] type = "err" -> 8
    [] type = "none" -> 9
    [] type = "some" -> 10
    [] type = "list" -> 11
    [] type = "tuple" -> 12

\* The fixed one-byte type tag of each Clarity value variant.
ClarityWireType(type) ==
  CASE type = "int" -> 0
    [] type = "uint" -> 1
    [] type = "buffer" -> 2
    [] type = "true" -> 3
    [] type = "false" -> 4
    [] type = "address" -> 5
    [] type = "contract" -> 6
    [] type = "ok" -> 7
    [] type = "err" -> 8
    [] type = "none" -> 9
    [] type = "some" -> 10
    [] type = "list" -> 11
    [] type = "tuple" -> 12

ClarityTypes ==
  {"int", "uint", "buffer", "true", "false", "address", "contract", "ok", "err",
   "none", "some", "list", "tuple"}

\* A length-prefixed byte string: the length in prefix bytes, then the content.
LengthPrefixed(content, prefix) == ToBytes(Len(content), prefix) \o content

\* The Clarity values without parts.
Atoms ==
  {[type |-> "int", value |-> v] : v \in (-MaxInt)..MaxInt}
    \cup {[type |-> "uint", value |-> v] : v \in 0..MaxInt}
    \cup {boolCV(b) : b \in BOOLEAN}
    \cup {[type |-> "none"]}
    \cup {[type |-> "buffer", buffer |-> c] : c \in Contents}
    \cup {[type |-> "address", address |-> [version |-> v, hash160 |-> h]] :
            v \in AddressVersions, h \in Hash160s}
    \cup {[type |-> "contract", address |-> [version |-> v, hash160 |-> h, name |-> n]] :
            v \in AddressVersions, h \in Hash160s, n \in Names}

\* The key lists of a tuple with n fields: unique keys, in insertion order.
TupleKeys(n) == {ks \in [1..n -> Names] : \A i, j \in 1..n : ks[i] = ks[j] => i = j}

\* The Clarity values of at most n nodes, and the lists of values of at most
\* n nodes in all.
RECURSIVE ClarityValues(_), ClarityLists(_)
ClarityValues(n) ==
  IF n = 0 THEN {}
  ELSE Atoms
    \cup {[type |-> t, inner |-> x] : t \in {"some", "ok", "err"}, x \in ClarityValues(n - 1)}
    \cup {[type |-> "list", list |-> xs] : xs \in ClarityLists(n - 1)}
    \cup UNION {{[type |-> "tuple", data |-> [i \in 1..Len(xs) |-> <<ks[i], xs[i]>>]] :
                   ks \in TupleKeys(Len(xs))} : xs \in ClarityLists(n - 1)}

ClarityLists(n) ==
  IF n = 0 THEN {<<>>}
  ELSE {<<>>} \cup UNION {{<<x>> \o rest : x \in ClarityValues(k), rest \in ClarityLists(n - k)}
                            : k \in 1..n}

\* serializeCV: the type tag, then the fields of the variant.
RECURSIVE serializeCV(_), SerializeValues(_), SerializeFields(_)
serializeCV(cv) ==
  <<ClarityWireType(cv.type)>> \o
  CASE cv.type = "int" -> ToSignedBytes(cv.value, IntBytes)
    [] cv.type = "uint" -> ToBytes(cv.value, IntBytes)
    [] cv.type = "buffer" -> LengthPrefixed(cv.buffer, LengthBytes)
    [] cv.type \in {"true", "false", "none"} -> <<>>
    [] cv.type = "address" -> <<cv.address.version>> \o cv.address.hash160
    [] cv.type = "contract" ->
         <<cv.address.version>> \o cv.address.hash160 \o LengthPrefixed(cv.address.name, 1)
    [] cv.type \in {"some", "ok", "err"} -> serializeCV(cv.inner)
    [] cv.type = "list" -> ToBytes(Len(cv.list), LengthBytes) \o SerializeValues(cv.list)
    [] cv.type = "tuple" -> ToBytes(Len(cv.data), LengthBytes) \o SerializeFields(cv.data)

SerializeValues(xs) ==
  IF xs = <<>> THEN <<>> ELSE serializeCV(Head(xs)) \o SerializeValues(Tail(xs))

SerializeFields(fs) ==
  IF fs = <<>> THEN <<>>
  ELSE LengthPrefixed(Head(fs)[1], 1) \o serializeCV(Head(fs)[2]) \o SerializeFields(Tail(fs))

\* The variant a type tag stands for ("unknown" for no variant).
ClarityTypeOf(tag) ==
  IF \E t \in ClarityTypes : ClarityWireType(t) = tag
    THEN CHOOSE t \in ClarityTypes : ClarityWireType(t) = tag
    ELSE "unknown"

\* deserializeCV(bytes, cursor): the value read at the cursor and the cursor after it.
RECURSIVE deserializeCV(_, _), DeserializeValues(_, _, _), DeserializeFields(_, _, _)
deserializeCV(bytes, cursor) ==
  LET type == ClarityTypeOf(bytes[cursor + 1])
      at == cursor + 1
  IN CASE type = "int" ->
            [value |-> [type |-> type, value |-> FromSignedBytes(ReadBytes(bytes, at, IntBytes))],
             cursor |-> at + IntBytes]
       [] type = "uint" ->
            [value |-> [type |-> type, value |-> FromBytes(ReadBytes(bytes, at, IntBytes))],
             cursor |-> at + IntBytes]
       [] type = "buffer" ->
            LET n == FromBytes(ReadBytes(bytes, at, LengthBytes))
            IN [value |-> [type |-> type, buffer |-> ReadBytes(bytes, at + LengthBytes, n)],
                cursor |-> at + LengthBytes + n]
       [] type \in {"true", "false", "none"} ->
            [value |-> [type |-> type], cursor |-> at]
       [] type = "address" ->
            [value |-> [type |-> type,
                        address |-> [version |-> bytes[at + 1],
                                     hash160 |-> ReadBytes(bytes, at + 1, HashBytes)]],
             cursor |-> at + 1 + HashBytes]
       [] type = "contract" ->
            LET n == bytes[at + 1 + HashBytes + 1]
            IN [value |-> [type |-> type,
                           address |-> [version |-> bytes[at + 1],
                                        hash160 |-> ReadBytes(bytes, at + 1, HashBytes),
                                        name |-> ReadBytes(bytes, at + 1 + HashBytes + 1, n)]],
                cursor |-> at + 1 + HashBytes + 1 + n]
       [] type \in {"some", "ok", "err"} ->
            LET inner == deserializeCV(bytes, at)
            IN [value |-> [type |-> type, inner |-> inner.value], cursor |-> inner.cursor]
       [] type = "list" ->
            LET n == FromBytes(ReadBytes(bytes, at, LengthBytes))
                items == DeserializeValues(bytes, at + LengthBytes, n)
            IN [value |-> [type |-> type, list |-> items.value], cursor |-> items.cursor]
       [] type = "tuple" ->
            LET n == FromBytes(ReadBytes(bytes, at, LengthBytes))
                items == DeserializeFields(bytes, at + LengthBytes, n)
            IN [value |-> [type |-> type, data |-> items.value], cursor |-> items.cursor]
       [] OTHER -> [value |-> [type |-> "UnknownClarityType"], cursor |-> Len(bytes)]

DeserializeValues(bytes, cursor, n) ==
  IF n = 0 THEN [value |-> <<>>, cursor |-> cursor]
  ELSE LET first == deserializeCV(bytes, cursor)
           rest == DeserializeValues(bytes, first.cursor, n - 1)
       IN [value |-> <<first.value>> \o rest.value, cursor |-> rest.cursor]

DeserializeFields(bytes, cursor, n) ==
  IF n = 0 THEN [value |-> <<>>, cursor |-> cursor]
  ELSE LET k == bytes[cursor + 1]
           key == ReadBytes(bytes, cursor + 1, k)
           first == deserializeCV(bytes, cursor + 1 + k)
           rest == DeserializeFields(bytes, first.cursor, n - 1)
       IN [value |-> <<(<<key, first.value>>)>> \o rest.value, cursor |-> rest.cursor]

\* The wire primitives: addresses, length-prefixed strings, memo strings,
\* public keys, message signatures and length-prefixed lists of addresses or
\* of strings. Strings are given by their UTF-8 bytes.
AddressWires ==
  {[type |-> "Address", version |-> v, hash160 |-> h] : v \in AddressVersions, h \in Hash160s}

LengthPrefixedStringWires ==
  {[type |-> "LengthPrefixedString", content |-> c, lengthPrefixBytes |-> p,
    maxLengthBytes |-> MaxContent] : c \in Contents, p \in {1, LengthBytes}}

MemoStringWires == {[type |-> "MemoString", content |-> c] : c \in Contents}

PublicKeyWires ==
  {[type |-> "PublicKey", data |-> <<tag>> \o [i \in 1..(CompressedKeyBytes - 1) |-> i]] :
     tag \in {2, 3}}
    \cup {[type |-> "PublicKey", data |-> <<4>> \o [i \in 1..(UncompressedKeyBytes - 1) |-> i]]}

MessageSignatureWires ==
  {[type |-> "MessageSignature", data |-> <<recoveryId>> \o [i \in 1..(SignatureBytes - 1) |-> i]] :
     recoveryId \in {0, 1}}

ElementWires == AddressWires \cup LengthPrefixedStringWires

LengthPrefixedListWires ==
  {[type |-> "LengthPrefixedList", lengthPrefixBytes |-> p, values |-> vs] :
     p \in {1, LengthBytes},
     vs \in {vs \in UNION {[1..n -> ElementWires] : n \in 0..2} :
               \A i \in 1..Len(vs) : vs[i].type = vs[1].type
                 /\ (vs[i].type = "LengthPrefixedString" =>
                       vs[i].lengthPrefixBytes = vs[1].lengthPrefixBytes)}}

Wires ==
  AddressWires \cup LengthPrefixedStringWires \cup MemoStringWires \cup PublicKeyWires
    \cup MessageSignatureWires \cup LengthPrefixedListWires

RECURSIVE Zeros(_)
Zeros(n) == IF n = 0 THEN <<>> ELSE Append(Zeros(n - 1), 0)

\* The content of a memo field: the bytes before its trailing zero bytes.
RECURSIVE StripTrailingZeros(_)
StripTrailingZeros(bytes) ==
  IF bytes = <<>> \/ bytes[Len(bytes)] # 0 THEN bytes
  ELSE StripTrailingZeros(SubSeq(bytes, 1, Len(bytes) - 1))

\* serializeFunaiWire(wire)
RECURSIVE serializeWire(_), SerializeWires(_)
serializeWire(wire) ==
  CASE wire.type = "Address" -> <<wire.version>> \o wire.hash160
    [] wire.type = "LengthPrefixedString" -> LengthPrefixed(wire.content, wire.lengthPrefixBytes)
    [] wire.type = "MemoString" -> wire.content \o Zeros(MemoBytes - Len(wire.content))
    [] wire.type = "PublicKey" -> wire.data
    [] wire.type = "MessageSignature" -> wire.data
    [] wire.type = "LengthPrefixedList" ->
         ToBytes(Len(wire.values), wire.lengthPrefixBytes) \o SerializeWires(wire.values)

SerializeWires(ws) ==
  IF ws = <<>> THEN <<>> ELSE serializeWire(Head(ws)) \o SerializeWires(Tail(ws))

\* What the use-site declares of the primitive it reads: its kind, the prefix
\* width and maximum length of a string, the prefix width and element
\* declaration of a list.
DeclarationOf(wire) ==
  CASE wire.type = "LengthPrefixedString" ->
         [type |-> wire.type, lengthPrefixBytes |-> wire.lengthPrefixBytes,
          maxLengthBytes |-> wire.maxLengthBytes]
    [] wire.type = "LengthPrefixedList" ->
         [type |-> wire.type, lengthPrefixBytes |-> wire.lengthPrefixBytes,
          element |-> IF wire.values = <<>> THEN "Address" ELSE wire.values[1].type,
          elementPrefixBytes |->
            IF wire.values # <<>> /\ wire.values[1].type = "LengthPrefixedString"
              THEN wire.values[1].lengthPrefixBytes ELSE 1]
    [] OTHER -> [type |-> wire.type]

\* deserialize<Wire>(bytes, cursor) for the declared primitive: the primitive
\* read at the cursor and the cursor after it.
RECURSIVE deserializeWire(_, _, _), DeserializeWires(_, _, _, _)
deserializeWire(declared, bytes, cursor) ==
  CASE declared.type = "Address" ->
         [value |-> [type |-> "Address", version |-> bytes[cursor + 1],
                     hash160 |-> ReadBytes(bytes, cursor + 1, HashBytes)],
          cursor |-> cursor + 1 + HashBytes]
    [] declared.type = "LengthPrefixedString" ->
         LET n == FromBytes(ReadBytes(bytes, cursor, declared.lengthPrefixBytes))
         IN [value |-> [type |-> "LengthPrefixedString",
                        content |-> ReadBytes(bytes, cursor + declared.lengthPrefixBytes, n),
                        lengthPrefixBytes |-> declared.lengthPrefixBytes,
                        maxLengthBytes |-> declared.maxLengthBytes],
             cursor |-> cursor + declared.lengthPrefixBytes + n]
    [] declared.type = "MemoString" ->
         [value |-> [type |-> "MemoString",
                     content |-> StripTrailingZeros(ReadBytes(bytes, cursor, MemoBytes))],
          cursor |-> cursor + MemoBytes]
    [] declared.type = "PublicKey" ->
         LET n == IF bytes[cursor + 1] = 4 THEN UncompressedKeyBytes ELSE CompressedKeyBytes
         IN [value |-> [type |-> "PublicKey", data |-> ReadBytes(bytes, cursor, n)],
             cursor |-> cursor + n]
    [] declared.type = "MessageSignature" ->
         [value |-> [type |-> "MessageSignature",
                     data |-> ReadBytes(bytes, cursor, SignatureBytes)],
          cursor |-> cursor + SignatureBytes]
    [] declared.type = "LengthPrefixedList" ->
         LET n == FromBytes(ReadBytes(bytes, cursor, declared.lengthPrefixBytes))
             element == [type |-> declared.element,
                         lengthPrefixBytes |-> declared.elementPrefixBytes,
                         maxLengthBytes |-> MaxContent]
             items == DeserializeWires(element, bytes, cursor + declared.lengthPrefixBytes, n)
         IN [value |-> [type |-> "LengthPrefixedList",
                        lengthPrefixBytes |-> declared.lengthPrefixBytes,
                        values |-> items.value],
             cursor |-> items.cursor]

DeserializeWires(element, bytes, cursor, n) ==
  IF n = 0 THEN [value |-> <<>>, cursor |-> cursor]
  ELSE LET first == deserializeWire(element, bytes, cursor)
           rest == DeserializeWires(element, bytes, first.cursor, n - 1)
       IN [value |-> <<first.value>> \o rest.value, cursor |-> rest.cursor]

CodecIdle == [pc |-> "idle", kind |-> "none", value |-> <<>>, bytes |-> <<>>,
              read |-> <<>>, cursor |-> 0]

CodecInit ==
  /\ BuilderIdle
  /\ sponsor = Unused
  /\ pair = Unused
  /\ chain = Unused
  /\ codec = CodecIdle
  /\ api = Unused
  /\ task = Unused

\* A Clarity value is serialized.
SerializeClarityValue ==
  /\ codec.pc = "idle"
  /\ \E cv \in ClarityValues(MaxSize) :
       codec' = [CodecIdle EXCEPT !.pc = "serialized", !.kind = "clarity",
                                  !.value = cv, !.bytes = serializeCV(cv)]
  /\ UNCHANGED <<builderVars, sponsor, pair, chain, api, task>>

\* A wire primitive is serialized.
SerializeWire ==
  /\ codec.pc = "idle"
  /\ \E wire \in Wires :
       codec' = [CodecIdle EXCEPT !.pc = "serialized", !.kind = "wire",
                                  !.value = wire, !.bytes = serializeWire(wire)]
  /\ UNCHANGED <<builderVars, sponsor, pair, chain, api, task>>

\* The bytes of a Clarity value are read back.
DeserializeClarityValue ==
  /\ codec.pc = "serialized" /\ codec.kind = "clarity"
  /\ LET r == deserializeCV(codec.bytes, 0)
     IN codec' = [codec EXCEPT !.pc = "deserialized", !.read = r.value, !.cursor = r.cursor]
  /\ UNCHANGED <<builderVars, sponsor, pair, chain, api, task>>

\* The bytes of a wire primitive are read back at its use-site.
DeserializeWire ==
  /\ codec.pc = "serialized" /\ codec.kind = "wire"
  /\ LET r == deserializeWire(DeclarationOf(codec.value), codec.bytes, 0)
     IN codec' = [codec EXCEPT !.pc = "deserialized", !.read = r.value, !.cursor = r.cursor]
  /\ UNCHANGED <<builderVars, sponsor, pair, chain, api, task>>

CodecNext ==
  \/ SerializeClarityValue
  \/ SerializeWire
  \/ DeserializeClarityValue
  \/ DeserializeWire

CodecSpec == CodecInit /\ [][CodecNext]_vars

ZeroEndedMemo ==
  /\ codec.kind = "wire"
  /\ codec.value.type = "MemoString"
  /\ codec.value.content # <<>>
  /\ codec.value.content[Len(codec.value.content)] = 0

HIRO_MAINNET_URL == "http://34.143.166.224:20443"

HIRO_TESTNET_URL == "http://localhost:20443"

DEVNET_URL == "http://localhost:3999"

FUNAI_MAINNET ==
  [transactionVersion |-> "Mainnet", magicBytes |-> "X2",
   addressVersion |-> addressVersion("mainnet"),
   client |-> [baseUrl |-> HIRO_MAINNET_URL]]

FUNAI_TESTNET ==
  [transactionVersion |-> "Testnet", magicBytes |-> "T2",
   addressVersion |-> addressVersion("testnet"),
   client |-> [baseUrl |-> HIRO_TESTNET_URL]]

\* { ...FUNAI_TESTNET, magicBytes: 'id', client: { baseUrl: DEVNET_URL } }
FUNAI_DEVNET ==
  [FUNAI_TESTNET EXCEPT !.magicBytes = "id", !.client = [baseUrl |-> DEVNET_URL]]

\* { ...FUNAI_DEVNET, ... deep copies }
FUNAI_MOCKNET == FUNAI_DEVNET

FunaiNetworks == {"mainnet", "testnet", "devnet", "mocknet"}

\* networkFromName(name)
networkFromName(name) ==
  CASE name = "mainnet" -> FUNAI_MAINNET
    [] name = "testnet" -> FUNAI_TESTNET
    [] name = "devnet" -> FUNAI_DEVNET
    [] name = "mocknet" -> FUNAI_MOCKNET

\* A base URL a caller configures for a node of their own.
CustomUrls == {"http://localhost:8080"}

\* A network object of the caller's: a network constant with its client
\* pointed at another node.
CustomNetworks ==
  {[n EXCEPT !.client = [baseUrl |-> u]] :
     n \in {FUNAI_MAINNET, FUNAI_TESTNET, FUNAI_DEVNET}, u \in CustomUrls}

\* network?: FunaiNetworkName | FunaiNetwork
NetworkParams ==
  {[form |-> "omitted"]}
    \cup {[form |-> "name", name |-> n] : n \in FunaiNetworks}
    \cup {[form |-> "object", object |-> n] :
            n \in {FUNAI_MAINNET, FUNAI_TESTNET, FUNAI_DEVNET, FUNAI_MOCKNET} \cup CustomNetworks}

\* networkFrom(network)
networkFrom(network) ==
  IF network.form = "name" THEN networkFromName(network.name) ELSE network.object

\* A variant that does not look at the magic bytes: every network that is not
\* mainnet gets the testnet URL.
defaultUrlFromNetwork_NoDevnet(network) ==
  IF network.form = "omitted" THEN HIRO_MAINNET_URL
  ELSE IF networkFrom(network).transactionVersion = "Mainnet" THEN HIRO_MAINNET_URL
  ELSE HIRO_TESTNET_URL

\* defaultUrlFromNetwork(network)
defaultUrlFromNetwork(network) ==
  IF network.form = "omitted" THEN HIRO_MAINNET_URL
  ELSE IF networkFrom(network).transactionVersion = "Mainnet" THEN HIRO_MAINNET_URL
  ELSE IF networkFrom(network).magicBytes = "id" THEN DEVNET_URL
  ELSE HIRO_TESTNET_URL

\* baseUrl?: string
BaseUrlOptions == {Absent} \cup {Some(u) : u \in CustomUrls \cup {""}}

\* constructor({ baseUrl, fetch, network = FUNAI_MAINNET } = {}): the network
\* parameter after its default, and the two fields the constructor sets.
FunaiNodeApi(baseUrl, network) ==
  LET given == IF network.form = "omitted" THEN [form |-> "object", object |-> FUNAI_MAINNET]
                                           ELSE network
  IN [baseUrl |-> IF baseUrl # Absent THEN baseUrl[1] ELSE defaultUrlFromNetwork(given),
      network |-> networkFrom(given)]

\* Explicit timeoutMs values are 0..MaxTimeout.
MaxTimeout == 1

\* Explicit pollIntervalMs values are 0..MaxInterval.
MaxInterval == 1

\* The clock advances by single milliseconds up to MaxClock; beyond it only
\* to the next wake-up time or past the deadline.
MaxClock == 2

\* The number of queries is counted up to MaxQueries.
MaxQueries == 2

\* pollIntervalMs = 2000
DefaultPollIntervalMs == 2000

\* timeoutMs = 300000
DefaultTimeoutMs == 300000

\* The task states a status query can answer with.
Statuses ==
  {"pending", "completed", "Completed", "COMPLETED", "failed", "Failed", "timeout",
   "Timeout"}

\* Errors queryInferenceTaskStatus throws.
QueryErrors == {"AuthenticationFailed", "TaskNotFound"}

\* QueryTaskOptions & { pollIntervalMs?, timeoutMs? }. With the default
\* timeout the interval is the default one or 0.
WaitOptions ==
  {[timeoutMs |-> t, pollIntervalMs |-> p] :
     t \in {Absent} \cup {Some(n) : n \in 0..MaxTimeout},
     p \in {Absent} \cup {Some(n) : n \in 0..MaxInterval}}
  \ {[timeoutMs |-> Absent, pollIntervalMs |-> Some(n)] : n \in 1..MaxInterval}

timeoutMs(a) ==
  IF a.options.timeoutMs = Absent THEN DefaultTimeoutMs ELSE a.options.timeoutMs[1]

pollIntervalMs(a) ==
  IF a.options.pollIntervalMs = Absent THEN DefaultPollIntervalMs
                                       ELSE a.options.pollIntervalMs[1]

\* No FunaiNodeApi has been constructed.
ApiIdle ==
  [pc |-> "unconstructed", given |-> [baseUrl |-> Absent, network |-> [form |-> "omitted"]],
   baseUrl |-> "", network |-> FUNAI_MAINNET,
   options |-> [timeoutMs |-> Absent, pollIntervalMs |-> Absent],
   now |-> 0, startTime |-> 0, wakeAt |-> 0, queries |-> 0, inFlight |-> 0,
   lastStatus |-> "", thrown |-> Absent, result |-> Absent, error |-> Absent]

\* Another queryInferenceTaskStatus request is issued.
Query(a) ==
  [a EXCEPT !.pc = "querying",
            !.inFlight = @ + 1,
            !.queries = IF @ < MaxQueries THEN @ + 1 ELSE @]

\* waitForInferenceResult(options): startTime = Date.now(), then the first query.
waitForInferenceResult(a, options) ==
  Query([a EXCEPT !.options = options, !.startTime = a.now])

\* A variant that checks the deadline before it looks at the status.
OnStatus_DeadlineFirst(a, status) ==
  LET s == [a EXCEPT !.lastStatus = status, !.inFlight = @ - 1]
  IN IF a.now - a.startTime > timeoutMs(a)
       THEN [s EXCEPT !.pc = "rejected", !.error = Some("TimedOutWaiting")]
     ELSE IF status \in {"completed", "Completed"}
       THEN [s EXCEPT !.pc = "resolved", !.result = Some(status)]
     ELSE IF status \in {"failed", "Failed"}
       THEN [s EXCEPT !.pc = "rejected", !.error = Some("InferenceTaskFailed")]
     ELSE IF status \in {"timeout", "Timeout"}
       THEN [s EXCEPT !.pc = "rejected", !.error = Some("InferenceTaskTimedOut")]
     ELSE [s EXCEPT !.pc = "sleeping", !.wakeAt = a.now + pollIntervalMs(a)]

\* A variant that never checks the deadline.
OnStatus_NoDeadline(a, status) ==
  LET s == [a EXCEPT !.lastStatus = status, !.inFlight = @ - 1]
  IN IF status \in {"completed", "Completed"}
       THEN [s EXCEPT !.pc = "resolved", !.result = Some(status)]
     ELSE IF status \in {"failed", "Failed"}
       THEN [s EXCEPT !.pc = "rejected", !.error = Some("InferenceTaskFailed")]
     ELSE IF status \in {"timeout", "Timeout"}
       THEN [s EXCEPT !.pc = "rejected", !.error = Some("InferenceTaskTimedOut")]
     ELSE [s EXCEPT !.pc = "sleeping", !.wakeAt = a.now + pollIntervalMs(a)]

\* The body of the loop after `await this.queryInferenceTaskStatus(...)`
\* resolved with a status: return, throw, or start the pollIntervalMs wait.
OnStatus(a, status) ==
  LET s == [a EXCEPT !.lastStatus = status, !.inFlight = @ - 1]
  IN IF status \in {"completed", "Completed"}
       THEN [s EXCEPT !.pc = "resolved", !.result = Some(status)]
     ELSE IF status \in {"failed", "Failed"}
       THEN [s EXCEPT !.pc = "rejected", !.error = Some("InferenceTaskFailed")]
     ELSE IF status \in {"timeout", "Timeout"}
       THEN [s EXCEPT !.pc = "rejected", !.error = Some("InferenceTaskTimedOut")]
     ELSE IF a.now - a.startTime > timeoutMs(a)
       THEN [s EXCEPT !.pc = "rejected", !.error = Some("TimedOutWaiting")]
     ELSE [s EXCEPT !.pc = "sleeping", !.wakeAt = a.now + pollIntervalMs(a)]

\* A variant that waits and queries again when a query throws.
OnQueryError_Retry(a, e) ==
  [a EXCEPT !.pc = "sleeping", !.inFlight = @ - 1, !.thrown = Some(e),
            !.wakeAt = a.now + pollIntervalMs(a)]

\* queryInferenceTaskStatus threw: the error leaves waitForInferenceResult.
OnQueryError(a, e) ==
  [a EXCEPT !.pc = "rejected", !.inFlight = @ - 1, !.thrown = Some(e), !.error = Some(e)]

\* The times the clock can advance to next.
NextTimes(a) ==
  {t \in {a.now + 1} : a.now < MaxClock}
    \cup {t \in {a.wakeAt} : a.pc = "sleeping" /\ t > a.now}
    \cup {t \in {a.startTime + timeoutMs(a) + 1} : t > a.now}

ApiInit ==
  /\ BuilderIdle
  /\ sponsor = Unused
  /\ pair = Unused
  /\ chain = Unused
  /\ codec = Unused
  /\ api = ApiIdle
  /\ task = Unused

\* new FunaiNodeApi({ baseUrl, network })
Construct ==
  /\ api.pc = "unconstructed"
  /\ \E baseUrl \in BaseUrlOptions, network \in NetworkParams :
       LET made == FunaiNodeApi(baseUrl, network)
       IN api' = [api EXCEPT !.pc = "ready",
                             !.given = [baseUrl |-> baseUrl, network |-> network],
                             !.baseUrl = made.baseUrl, !.network = made.network]
  /\ UNCHANGED <<builderVars, sponsor, pair, chain, codec, task>>

\* api.waitForInferenceResult(options)
WaitCall ==
  /\ api.pc = "ready"
  /\ \E options \in WaitOptions : api' = waitForInferenceResult(api, options)
  /\ UNCHANGED <<builderVars, sponsor, pair, chain, codec, task>>

\* The status query resolves.
QueryReturns ==
  /\ api.pc = "querying"
  /\ \E status \in Statuses : api' = OnStatus(api, status)
  /\ UNCHANGED <<builderVars, sponsor, pair, chain, codec, task>>

\* The status query rejects.
QueryThrows ==
  /\ api.pc = "querying"
  /\ \E e \in QueryErrors : api' = OnQueryError(api, e)
  /\ UNCHANGED <<builderVars, sponsor, pair, chain, codec, task>>

\* setTimeout(resolve, pollIntervalMs) fires: the loop queries again.
TimerFires ==
  /\ api.pc = "sleeping"
  /\ api.now >= api.wakeAt
  /\ api' = Query([api EXCEPT !.wakeAt = 0])
  /\ UNCHANGED <<builderVars, sponsor, pair, chain, codec, task>>

\* Time passes while a wait is running.
Tick ==
  /\ api.pc \in {"querying", "sleeping"}
  /\ \E t \in NextTimes(api) : api' = [api EXCEPT !.now = t]
  /\ UNCHANGED <<builderVars, sponsor, pair, chain, codec, task>>

ApiNext ==
  \/ Construct
  \/ WaitCall
  \/ QueryReturns
  \/ QueryThrows
  \/ TimerFires
  \/ Tick

ApiSpec == ApiInit /\ [][ApiNext]_vars

\* Every query settles, every timer fires and time advances.
ApiFairness ==
  /\ WF_vars(QueryReturns \/ QueryThrows)
  /\ WF_vars(TimerFires)
  /\ WF_vars(Tick)

ApiLiveSpec == ApiSpec /\ ApiFairness

\* The URL of the predefined network a constructor argument names.
UrlOfPredefined(network) ==
  IF network.form = "name"
    THEN CASE network.name = "mainnet" -> HIRO_MAINNET_URL
           [] network.name = "testnet" -> HIRO_TESTNET_URL
           [] network.name = "devnet" -> DEVNET_URL
           [] network.name = "mocknet" -> DEVNET_URL
    ELSE network.object.client.baseUrl

\* The constructor was given one of the predefined networks.
Predefined(network) ==
  \/ network.form = "name"
  \/ /\ network.form = "object"
     /\ network.object \in {FUNAI_MAINNET, FUNAI_TESTNET, FUNAI_DEVNET, FUNAI_MOCKNET}

\* C18: a FunaiNodeApi constructed with only a predefined network (object or
\* name) has that network's URL as baseUrl, constructed with no arguments it
\* has the mainnet URL, and an explicit baseUrl always takes precedence.
C18_BaseUrlOfNetwork ==
  api.pc # "unconstructed" =>
    IF api.given.baseUrl # Absent THEN api.baseUrl = api.given.baseUrl[1]
    ELSE IF api.given.network.form = "omitted" THEN api.baseUrl = HIRO_MAINNET_URL
    ELSE Predefined(api.given.network) => api.baseUrl = UrlOfPredefined(api.given.network)

\* An API object constructed with only FUNAI_DEVNET, with the devnet URL.
C18_Witness ==
  /\ api.pc = "ready"
  /\ api.given = [baseUrl |-> Absent, network |-> [form |-> "object", object |-> FUNAI_DEVNET]]
  /\ api.baseUrl = DEVNET_URL

\* The time since waitForInferenceResult was called.
Elapsed == api.now - api.startTime

Settled == api.pc \in {"resolved", "rejected"}

\* C19: waitForInferenceResult resolves only with a completed status, and a
\* completed status resolves it whenever it is observed, also past the
\* deadline; a failed status rejects it with the task-failed error and a
\* timeout status with the task-timed-out error.
C19_ResolvesOnlyCompleted ==
  /\ api.pc = "resolved" =>
       /\ api.lastStatus \in {"completed", "Completed"}
       /\ api.result = Some(api.lastStatus)
  /\ api.lastStatus \in {"completed", "Completed"} => api.pc = "resolved"
  /\ api.lastStatus \in {"failed", "Failed"} =>
       api.pc = "rejected" /\ api.error = Some("InferenceTaskFailed")
  /\ api.lastStatus \in {"timeout", "Timeout"} =>
       api.pc = "rejected" /\ api.error = Some("InferenceTaskTimedOut")

\* A call that resolved with a completed status observed after the deadline.
C19_Witness ==
  /\ api.pc = "resolved"
  /\ Elapsed > timeoutMs(api)
  /\ api.queries >= 2

\* The loop's own outcome when no observed status was terminal and no query
\* threw.
TimedOutWaiting == api.pc = "rejected" /\ api.error = Some("TimedOutWaiting")

\* What holds in every state of a wait: a settled call made a query, a
\* pollIntervalMs wait started only while the deadline was not exceeded, and
\* the timed-out-waiting error means the deadline was exceeded.
WaitBounded ==
  /\ Settled => api.queries >= 1
  /\ api.pc = "sleeping" => api.wakeAt - pollIntervalMs(api) - api.startTime <= timeoutMs(api)
  /\ TimedOutWaiting => Elapsed > timeoutMs(api)
  /\ (Settled /\ api.error \notin {Some(e) : e \in QueryErrors}
        /\ api.lastStatus \in {"pending", "COMPLETED"}) => TimedOutWaiting

\* C20: provided every query settles and time advances, a started
\* waitForInferenceResult settles; with only non-terminal statuses it rejects
\* with the timed-out-waiting error after more than timeoutMs (300000 ms by
\* default), having queried at least once and never having started a wait
\* after the deadline was found exceeded.
C20_Terminates ==
  /\ []WaitBounded
  /\ (api.pc = "querying") ~> Settled

\* A call with the default timeout that polled more than once and was
\* rejected with the timed-out-waiting error.
C20_Witness ==
  /\ TimedOutWaiting
  /\ api.options.timeoutMs = Absent
  /\ Elapsed > DefaultTimeoutMs
  /\ api.queries >= 2

C25_RejectionLeavesTransaction ==
  sponsor.pc = "rejected" => ST = SO.transaction

\* C26: a FunaiNodeApi constructed with a network object and no explicit
\* baseUrl, a custom network object included, has that network's own
\* client.baseUrl as its baseUrl.
C26_BaseUrlOfNetworkObject ==
  (/\ api.pc # "unconstructed"
   /\ api.given.baseUrl = Absent
   /\ api.given.network.form = "object")
    => api.baseUrl = api.given.network.object.client.baseUrl

\* A step of the wait that issues a status query.
QueryIssued == api'.inFlight > api.inFlight

\* A step in which a status query throws.
QueryThrew == api.thrown = Absent /\ api'.thrown # Absent

\* What every step of a wait keeps: a query is issued only when none is
\* outstanding, at the call or after a wait that has run to its wake-up time;
\* a throwing query settles the call with its error and issues nothing; a
\* settled call does nothing further.
OneQueryAtATime ==
  /\ QueryIssued =>
       /\ api.inFlight = 0
       /\ api'.inFlight = 1
       /\ \/ api.pc = "ready"
          \/ api.pc = "sleeping" /\ api.now >= api.wakeAt
  /\ QueryThrew =>
       /\ api'.pc = "rejected"
       /\ api'.error = api'.thrown
       /\ api'.inFlight = 0
       /\ api'.queries = api.queries
  /\ Settled => api' = api

\* C30: waitForInferenceResult issues its status queries one at a time, each
\* after the previous one returned and a pollIntervalMs wait elapsed; a query
\* that throws rejects the wait at once, without retry; a settled call issues
\* no further query.
C30_QueriesOneAtATime == [][OneQueryAtATime]_vars

\* A wait rejected by the error of its second or a later query.
C30_Witness ==
  /\ api.pc = "rejected"
  /\ api.thrown # Absent
  /\ api.error = api.thrown
  /\ api.queries >= 2
  /\ api.inFlight = 0

(* ------------------------------------------------------------------ *)
(* Task and node operations of FunaiNodeApi                             *)
(* ------------------------------------------------------------------ *)

\* The operations that return data, and the one that signs its request.
DataOperations ==
  {"submitInferTask", "getInferTaskStatus", "getSignerPublicKey", "getStats",
   "getAllNodes", "getAvailableTasks"}

Operations == DataOperations \cup {"queryInferenceTaskStatus"}

\* The fixed message an operation throws when the server gave no error string.
DefaultMessage(operation) ==
  CASE operation = "submitInferTask" -> "Failed to submit inference task"
    [] operation = "getInferTaskStatus" -> "Failed to get inference task status"
    [] operation = "getSignerPublicKey" -> "Failed to get signer public key"
    [] operation = "getStats" -> "Failed to get statistics"
    [] operation = "getAllNodes" -> "Failed to get inference nodes"
    [] operation = "getAvailableTasks" -> "Failed to get available tasks"
    [] operation = "queryInferenceTaskStatus" -> "Failed to get inference task status"

\* HTTP status codes of a response.
HttpStatuses == {200, 204, 401, 403, 404, 500}

\* The data of a response body: every operation's data is an object (or an
\* array); task_id is what submitInferTask reads from it.
ResponseData == {[task_id |-> id, items |-> n] : id \in {"task-1", "task-2"}, n \in {0, 1}}

\* ApiResponse<T> as response.json() gives it: success is missing, false or
\* true; data is missing (or null) or present; error is missing, empty or a text.
ResponseBodies ==
  {[success |-> s, data |-> d, error |-> e] :
     s \in {Absent, Some(FALSE), Some(TRUE)},
     d \in {Absent} \cup {Some(x) : x \in ResponseData},
     e \in {Absent, Some(""), Some("server error")}}

Responses == {[status |-> st, body |-> b] : st \in HttpStatuses, b \in ResponseBodies}

\* The truth value JavaScript gives result.success, result.data (an object
\* when present) and result.error.
TruthySuccess(success) == success = Some(TRUE)

TruthyData(data) == data # Absent

TruthyError(message) == message # Absent /\ message # Some("")

\* A variant of the shared idiom that looks at result.success only and
\* returns an empty object for missing data.
DataOrThrow_SuccessOnly(body, defaultMessage) ==
  IF TruthySuccess(body.success)
    THEN [ok |-> TRUE, error |-> "",
          data |-> IF body.data = Absent THEN Some([task_id |-> "", items |-> 0])
                                         ELSE body.data]
    ELSE [ok |-> FALSE, data |-> Absent,
          error |-> IF TruthyError(body.error) THEN body.error[1] ELSE defaultMessage]

\* if (result.success && result.data) return result.data;
\* else throw new Error(result.error || defaultMessage)
DataOrThrow(body, defaultMessage) ==
  IF TruthySuccess(body.success) /\ TruthyData(body.data)
    THEN [ok |-> TRUE, data |-> body.data, error |-> ""]
    ELSE [ok |-> FALSE, data |-> Absent,
          error |-> IF TruthyError(body.error) THEN body.error[1] ELSE defaultMessage]

\* The outcome of an operation as a settled call.
Resolved(t, value) == [t EXCEPT !.pc = "resolved", !.result = Some(value)]

Rejected(t, message) == [t EXCEPT !.pc = "rejected", !.error = Some(message)]

\* An operation that returns result.data as it is.
ReturnData(t, response) ==
  LET r == DataOrThrow(response.body, DefaultMessage(t.operation))
  IN IF r.ok THEN Resolved(t, [null |-> FALSE, value |-> r.data[1]])
             ELSE Rejected(t, r.error)

\* submitInferTask: return result.data.task_id
submitInferTask(t, response) ==
  LET r == DataOrThrow(response.body, DefaultMessage("submitInferTask"))
  IN IF r.ok THEN Resolved(t, [null |-> FALSE, value |-> r.data[1].task_id])
             ELSE Rejected(t, r.error)

\* getAvailableTasks: if (response.status === 204) return null
getAvailableTasks(t, response) ==
  IF response.status = 204
    THEN Resolved(t, [null |-> TRUE, value |-> ""])
    ELSE ReturnData(t, response)

\* utf8ToBytes(`query_task:${taskId}:${timestamp}`)
QueryMessage(taskId, timestamp) == <<"query_task:", taskId, ":", timestamp>>

\* sha256 (collision-free: the hash is the message it was computed from).
sha256(message) == [sha256 |-> message]

\* signMessageHashRsv({ messageHash, privateKey })
signMessageHashRsv(messageHash, privateKey) ==
  [signedBy |-> privateKey, messageHash |-> messageHash]

\* The request body queryInferenceTaskStatus builds at time now (in ms).
AuthenticatedTaskStatusRequest(taskId, privateKey, now) ==
  LET timestamp == now \div 1000
  IN [task_id |-> taskId,
      public_key |-> privateKeyToPublic(privateKey),
      signature |-> signMessageHashRsv(sha256(QueryMessage(taskId, timestamp)), privateKey),
      timestamp |-> timestamp]

\* A variant that interprets the response body before the status code.
queryInferenceTaskStatus_BodyFirst(t, response) ==
  LET r == DataOrThrow(response.body, DefaultMessage("queryInferenceTaskStatus"))
  IN IF r.ok THEN Resolved(t, [null |-> FALSE, value |-> r.data[1]])
     ELSE IF response.status = 401 THEN Rejected(t, "Authentication failed")
     ELSE IF response.status = 403 THEN Rejected(t, "Forbidden")
     ELSE IF response.status = 404 THEN Rejected(t, "Task not found")
     ELSE Rejected(t, r.error)

\* queryInferenceTaskStatus after its fetch resolved: 401, 403 and 404 throw
\* before response.json() is read.
queryInferenceTaskStatus(t, response) ==
  IF response.status = 401 THEN Rejected(t, "Authentication failed")
  ELSE IF response.status = 403 THEN Rejected(t, "Forbidden")
  ELSE IF response.status = 404 THEN Rejected(t, "Task not found")
  ELSE ReturnData(t, response)

\* The code of an operation after its fetch resolved with a response.
OnResponse(t, response) ==
  CASE t.operation = "submitInferTask" -> submitInferTask(t, response)
    [] t.operation = "getAvailableTasks" -> getAvailableTasks(t, response)
    [] t.operation = "queryInferenceTaskStatus" -> queryInferenceTaskStatus(t, response)
    [] OTHER -> ReturnData(t, response)

TaskIds == {"task-1", "task-2"}

\* Date.now() at the time of a call, in milliseconds.
CallTimes == {0, 1999, 2000}

\* No operation has been called.
OpsIdle ==
  [pc |-> "idle", operation |-> "", request |-> Absent, privateKey |-> Absent,
   response |-> Absent, result |-> Absent, error |-> Absent]

OpsInit ==
  /\ BuilderIdle
  /\ sponsor = Unused
  /\ pair = Unused
  /\ chain = Unused
  /\ codec = Unused
  /\ api = Unused
  /\ task = OpsIdle

\* An operation without a signed request is called: its fetch is issued.
InvokeOperation ==
  /\ task.pc = "idle"
  /\ \E operation \in DataOperations :
       task' = [task EXCEPT !.pc = "awaitFetch", !.operation = operation]
  /\ UNCHANGED <<builderVars, sponsor, pair, chain, codec, api>>

\* queryInferenceTaskStatus({ taskId, privateKey }) is called: the request
\* body is signed and its fetch is issued.
InvokeQuery ==
  /\ task.pc = "idle"
  /\ \E taskId \in TaskIds, privateKey \in PrivateKeys, now \in CallTimes :
       task' = [task EXCEPT
                  !.pc = "awaitFetch", !.operation = "queryInferenceTaskStatus",
                  !.privateKey = Some(privateKey),
                  !.request = Some(AuthenticatedTaskStatusRequest(taskId, privateKey, now))]
  /\ UNCHANGED <<builderVars, sponsor, pair, chain, codec, api>>

\* The fetch of the running operation resolves with a response.
FetchResolves ==
  /\ task.pc = "awaitFetch"
  /\ \E response \in Responses :
       task' = OnResponse([task EXCEPT !.response = Some(response)], response)
  /\ UNCHANGED <<builderVars, sponsor, pair, chain, codec, api>>

OpsNext ==
  \/ InvokeOperation
  \/ InvokeQuery
  \/ FetchResolves

OpsSpec == OpsInit /\ [][OpsNext]_vars

(* ------------------------------------------------------------------ *)
(* Properties of the task and node operations                           *)
(* ------------------------------------------------------------------ *)

\* The response the running operation received.
TR == task.response[1]

\* A data operation has settled on a response whose body it interpreted.
DataOperationSettled ==
  /\ task.operation \in DataOperations
  /\ task.pc \in {"resolved", "rejected"}
  /\ ~(task.operation = "getAvailableTasks" /\ TR.status = 204)

\* The body reports success and contains data.
SuccessWithData == TR.body.success = Some(TRUE) /\ TR.body.data # Absent

\* The server gave an error string.
ServerError == TR.body.error \notin {Absent, Some("")}

QR == task.request[1]

\* C23: the signature queryInferenceTaskStatus sends is over the SHA-256 hash
\* of 'query_task:{taskId}:{timestamp}' with the task_id and timestamp of the
\* same request body, made with the caller's private key, whose public key is
\* the body's public_key; a 401, 403 or 404 response gives its own error
\* whatever the response body says.
C23_SignedQuery ==
  task.operation = "queryInferenceTaskStatus" =>
    /\ QR.signature.messageHash = sha256(<<"query_task:", QR.task_id, ":", QR.timestamp>>)
    /\ QR.signature.signedBy = task.privateKey[1]
    /\ QR.public_key = privateKeyToPublic(QR.signature.signedBy)
    /\ task.response # Absent =>
         /\ TR.status = 401 => task.error = Some("Authentication failed")
         /\ TR.status = 403 => task.error = Some("Forbidden")
         /\ TR.status = 404 => task.error = Some("Task not found")

\* A signed query answered 404 with a body that reports success and data.
C23_Witness ==
  /\ task.operation = "queryInferenceTaskStatus"
  /\ task.pc = "rejected"
  /\ TR.status = 404
  /\ SuccessWithData
  /\ task.error = Some("Task not found")
  /\ QR.timestamp = 1

(* ------------------------------------------------------------------ *)
(* Signed-message framing                                               *)
(* ------------------------------------------------------------------ *)

\* Short messages have 0..MaxMessage characters or bytes.
MaxMessage == 2

\* Long messages have up to MaxOver bytes more than a threshold of the
\* variable-length integer encoding.
MaxOver == 1

\* A length below 0xfd is encoded as one byte.
OneByteLimit == 253

\* A length up to 0xffff is encoded as 0xfd and two bytes.
TwoByteLimit == 65535

\* n as width little-endian bytes.
LittleEndian(n, width) == [i \in 1..width |-> (n \div (256 ^ (i - 1))) % 256]

\* The unsigned integer that the first width bytes from position from stand
\* for, little-endian.
RECURSIVE ReadLittleEndian(_, _, _)
ReadLittleEndian(bytes, from, width) ==
  IF width = 0 THEN 0
  ELSE bytes[from] + 256 * ReadLittleEndian(bytes, from + 1, width - 1)

\* varuint encode(n)
encode(n) ==
  IF n < OneByteLimit THEN <<n>>
  ELSE IF n <= TwoByteLimit THEN <<253>> \o LittleEndian(n, 2)
  ELSE <<254>> \o LittleEndian(n, 4)

\* varuint decode(buffer): the integer encoded at the start of the buffer.
decode(buffer) ==
  IF buffer[1] < OneByteLimit THEN buffer[1]
  ELSE IF buffer[1] = 253 THEN ReadLittleEndian(buffer, 2, 2)
  ELSE ReadLittleEndian(buffer, 2, 4)

\* varuint encodingLength(n)
encodingLength(n) ==
  IF n < OneByteLimit THEN 1 ELSE IF n <= TwoByteLimit THEN 3 ELSE 5

\* The UTF-8 bytes of a code point below 0x800.
Utf8OfCodePoint(c) ==
  IF c < 128 THEN <<c>> ELSE <<192 + (c \div 64), 128 + (c % 64)>>

\* utf8ToBytes(string), a string being its sequence of code points.
RECURSIVE utf8ToBytes(_)
utf8ToBytes(string) ==
  IF string = <<>> THEN <<>>
  ELSE Utf8OfCodePoint(Head(string)) \o utf8ToBytes(Tail(string))

\* '\x16Funai Signed Message:\n'
chainPrefix ==
  <<22, 70, 117, 110, 97, 105, 32, 83, 105, 103, 110, 101, 100, 32, 77, 101, 115, 115,
    97, 103, 101, 58, 10>>

\* typeof message == 'string' ? utf8ToBytes(message) : message
MessageBytes(message) ==
  IF message.isString THEN utf8ToBytes(message.content) ELSE message.content

\* encodeMessage(message, prefix)
encodeMessage(message, prefix) ==
  LET messageBytes == MessageBytes(message)
      encodedLength == encode(Len(messageBytes))
  IN utf8ToBytes(prefix) \o encodedLength \o messageBytes

\* encodedMessage.subarray(n) / .slice(n): the bytes from index n on.
SliceFrom(bytes, n) == SubSeq(bytes, n + 1, Len(bytes))

\* A variant that removes as many bytes as the prefix has characters.
decodeMessage_PrefixCharacters(encodedMessage, prefix) ==
  LET prefixByteLength == Len(prefix)
      messageWithoutChainPrefix == SliceFrom(encodedMessage, prefixByteLength)
      decoded == decode(messageWithoutChainPrefix)
      varIntLength == encodingLength(decoded)
  IN SliceFrom(messageWithoutChainPrefix, varIntLength)

\* decodeMessage(encodedMessage, prefix)
decodeMessage(encodedMessage, prefix) ==
  LET prefixByteLength == Len(utf8ToBytes(prefix))
      messageWithoutChainPrefix == SliceFrom(encodedMessage, prefixByteLength)
      decoded == decode(messageWithoutChainPrefix)
      varIntLength == encodingLength(decoded)
  IN SliceFrom(messageWithoutChainPrefix, varIntLength)

\* The code points strings are made of: 'a' and a character of two UTF-8 bytes.
CodePoints == {97, 233}

\* The byte values byte messages are made of.
ByteValues == {0, 253}

ShortSequences(alphabet) == UNION {[1..n -> alphabet] : n \in 0..MaxMessage}

\* Byte messages whose length is next to a threshold of the length encoding.
LongLengths ==
  {n \in (OneByteLimit - 1)..(OneByteLimit + MaxOver) : TRUE}
    \cup {n \in TwoByteLimit..(TwoByteLimit + MaxOver) : TRUE}

\* message: string | Uint8Array
Messages ==
  {[isString |-> TRUE, content |-> c] : c \in ShortSequences(CodePoints)}
    \cup {[isString |-> FALSE, content |-> c] : c \in ShortSequences(ByteValues)}
    \cup {[isString |-> FALSE, content |-> [i \in 1..n |-> 7]] : n \in LongLengths}

\* prefix: string, the default one included.
Prefixes == {chainPrefix, <<>>, <<97>>, <<233, 10>>}

\* Nothing has been framed.
FrameIdle ==
  [pc |-> "idle", message |-> [isString |-> FALSE, content |-> <<>>], prefix |-> <<>>,
   decodePrefix |-> <<>>, encoded |-> <<>>, decoded |-> <<>>]

FrameInit ==
  /\ BuilderIdle
  /\ sponsor = Unused
  /\ pair = Unused
  /\ chain = Unused
  /\ codec = Unused
  /\ api = Unused
  /\ task = FrameIdle

\* encodeMessage(message, prefix) is called.
EncodeMessage ==
  /\ task.pc = "idle"
  /\ \E message \in Messages, prefix \in Prefixes :
       task' = [task EXCEPT !.pc = "encoded", !.message = message, !.prefix = prefix,
                            !.encoded = encodeMessage(message, prefix)]
  /\ UNCHANGED <<builderVars, sponsor, pair, chain, codec, api>>

\* decodeMessage(encoded, prefix) is called on the encoded message with the
\* prefix it was encoded with.
DecodeMessage ==
  /\ task.pc = "encoded"
  /\ task' = [task EXCEPT !.pc = "decoded", !.decodePrefix = task.prefix,
                          !.decoded = decodeMessage(task.encoded, task.prefix)]
  /\ UNCHANGED <<builderVars, sponsor, pair, chain, codec, api>>

FrameNext ==
  \/ EncodeMessage
  \/ DecodeMessage

FrameSpec == FrameInit /\ [][FrameNext]_vars

\* C29: decodeMessage(encodeMessage(m, p), p) is exactly the bytes of m, for
\* string and byte messages and every prefix; the encoding is the prefix
\* bytes, the variable-length encoding of the byte length, then the message
\* bytes; the default prefix starts with the length (22) of the text after it.
C29_FramingRoundTrip ==
  /\ chainPrefix[1] = Len(Tail(chainPrefix))
  /\ chainPrefix[1] = 22
  /\ task.pc # "idle" =>
       task.encoded = utf8ToBytes(task.prefix) \o encode(Len(MessageBytes(task.message)))
                        \o MessageBytes(task.message)
  /\ task.pc = "decoded" => task.decoded = MessageBytes(task.message)

\* A string message with a character of two bytes, framed with a prefix that
\* holds such a character too, and decoded.
C29_Witness ==
  /\ task.pc = "decoded"
  /\ task.message.isString
  /\ Len(MessageBytes(task.message)) > Len(task.message.content)
  /\ Len(utf8ToBytes(task.prefix)) > Len(task.prefix)
  /\ task.decoded = MessageBytes(task.message)

(* ------------------------------------------------------------------ *)
(* submitInferenceTask and submitEncryptedInferenceTask                 *)
(* ------------------------------------------------------------------ *)

\* A text as the caller wrote it.
Plain(text) == [kind |-> "plain", text |-> text, key |-> 0, rand |-> 0]

\* encryptForSigner(plaintext, recipientPublicKeyHex): the EncryptedData JSON.
\* It names the recipient key; rand stands for the ephemeral key and the
\* nonce; text is what the ciphertext decrypts to, readable with the
\* recipient's private key only.
encryptForSigner(plaintext, recipientPublicKeyHex, rand) ==
  [kind |-> "encrypted", text |-> plaintext.text, key |-> recipientPublicKeyHex,
   rand |-> rand]

\* `enc:${bytesToHex(sha256(utf8ToBytes(data))).slice(0, 16)}`: a placeholder
\* that identifies the encrypted data it was computed from.
EncPlaceholder(data) == [data EXCEPT !.kind = "placeholder"]

\* The node principal makeUnsignedInfer puts into every payload.
BootPrincipal == "ST000000000000000000002AMW42H"

\* createInferPayload(inferUserAddress, amount, userInput, context, nodePrincipal, modelName)
createInferPayload(inferUserAddress, amount, userInput, context, nodePrincipal, modelName) ==
  [payloadType |-> "Infer", inferUserAddress |-> inferUserAddress, amount |-> amount,
   userInput |-> userInput, context |-> context, nodePrincipal |-> nodePrincipal,
   modelName |-> modelName]

\* A variant that uses the nodePrincipal option when it is given.
InferPayload_OptionPrincipal(options) ==
  createInferPayload(options.inferUserAddress, options.amount, options.userInput,
                     options.context,
                     IF options.nodePrincipal = Absent THEN BootPrincipal
                                                       ELSE options.nodePrincipal[1],
                     options.modelName)

\* The payload of makeUnsignedInfer(options).
InferPayload(options) ==
  createInferPayload(options.inferUserAddress, options.amount, options.userInput,
                     options.context, BootPrincipal, options.modelName)

\* The transaction makeInfer(options) resolves with: the payload, the fee and
\* nonce (the caller's, or the fetched ones for omitted options) and the
\* signature of senderKey.
makeInferTransaction(options, fetchedFee, fetchedNonce) ==
  [payload |-> InferPayload(options),
   fee |-> IF options.fee = Absent THEN fetchedFee ELSE options.fee[1],
   nonce |-> IF options.nonce = Absent THEN fetchedNonce ELSE options.nonce[1],
   network |-> options.network,
   signedBy |-> options.senderKey]

\* getAddressFromPrivateKey(privateKey, network)
getAddressFromPrivateKey(privateKey, network) ==
  c32address(addressVersion(network).singleSig,
             Hash160("P2PKH", 1, <<privateKeyToPublic(privateKey)>>))

Texts == {"tell me", "about this"}

NodePrincipals == {"SP-node-1"}

ModelNames == {"model-1"}

\* encrypt?: boolean
EncryptOptions == {Absent, Some(TRUE), Some(FALSE)}

\* The options of submitInferenceTask and of submitEncryptedInferenceTask.
SubmitOptions ==
  {[privateKey |-> k, userInput |-> Plain(i), context |-> Plain(c), modelName |-> m,
    amount |-> a, nodePrincipal |-> np, fee |-> f, nonce |-> n, encrypt |-> e] :
     k \in PrivateKeys, i \in {"tell me"}, c \in Texts, m \in ModelNames, a \in Amounts,
     np \in {Absent} \cup {Some(p) : p \in NodePrincipals},
     f \in AmountOptions, n \in AmountOptions, e \in EncryptOptions}

\* The public keys getSignerPublicKey can answer with.
SignerPublicKeys == PublicKeys

\* The randomness of one encryption.
Randoms == {1, 2}

\* The responses of the submit endpoint.
SubmitResponses ==
  {[status |-> 200,
    body |-> [success |-> Some(TRUE), data |-> Some([task_id |-> "task-1", items |-> 0]),
              error |-> Absent]],
   [status |-> 500,
    body |-> [success |-> Some(FALSE), data |-> Absent, error |-> Some("server error")]]}

\* No submission is running.
SubmitIdle ==
  [pc |-> "idle", method |-> "", network |-> "mainnet", options |-> Absent,
   userAddress |-> Absent, signerPublicKey |-> Absent,
   apiUserInput |-> Plain(""), apiContext |-> Plain(""),
   txUserInput |-> Plain(""), txContext |-> Plain(""),
   transaction |-> Absent, request |-> Absent, result |-> Absent, error |-> Absent]

\* The options a submit method passes to makeInfer.
MakeInferOptions(t) ==
  LET options == t.options[1]
  IN [inferUserAddress |-> t.userAddress[1], amount |-> options.amount,
      userInput |-> t.txUserInput, context |-> t.txContext,
      nodePrincipal |-> options.nodePrincipal, modelName |-> options.modelName,
      senderKey |-> options.privateKey, network |-> t.network,
      fee |-> options.fee, nonce |-> options.nonce]

\* options.fee ? Number(options.fee) : undefined
NumberIfTruthy(option) == IF option # Absent /\ option[1] # 0 THEN option ELSE Absent

\* The SubmitTaskRequest a submit method hands to submitInferTask.
SubmitTaskRequest(t) ==
  LET options == t.options[1]
  IN [user_address |-> t.userAddress[1],
      user_input |-> t.apiUserInput,
      context |-> t.apiContext,
      model_name |-> options.modelName,
      infer_fee |-> options.amount,
      fee |-> NumberIfTruthy(options.fee),
      nonce |-> NumberIfTruthy(options.nonce),
      signed_tx |-> t.transaction[1],
      is_encrypted |-> IF t.method = "submitEncryptedInferenceTask"
                         THEN Some(options.encrypt # Some(FALSE)) ELSE Absent,
      signer_public_key |-> t.signerPublicKey]

\* The start of a submit method: the user address and the plaintext defaults
\* of the API and transaction texts; makeInfer is awaited next, unless the
\* signer's public key is fetched first.
SubmitStart(method, network, options) ==
  [SubmitIdle EXCEPT
     !.method = method, !.network = network, !.options = Some(options),
     !.userAddress = Some(getAddressFromPrivateKey(options.privateKey, network)),
     !.apiUserInput = options.userInput, !.apiContext = options.context,
     !.txUserInput = options.userInput, !.txContext = options.context,
     !.pc = IF method = "submitEncryptedInferenceTask" /\ options.encrypt # Some(FALSE)
              THEN "awaitSignerKey" ELSE "awaitMakeInfer"]

\* signerPublicKey = (await this.getSignerPublicKey()).public_key
OnSignerKey(t, publicKey) ==
  [t EXCEPT !.pc = "awaitEncryptInput", !.signerPublicKey = Some(publicKey)]

\* apiUserInput = await this.encryptWithPublicKey(options.userInput, signerPublicKey)
OnInputEncrypted(t, rand) ==
  [t EXCEPT !.pc = "awaitEncryptContext",
            !.apiUserInput = encryptForSigner(t.options[1].userInput,
                                              t.signerPublicKey[1], rand)]

\* A variant that leaves the plaintext in the transaction.
OnContextEncrypted_PlainOnChain(t, rand) ==
  LET apiContext == encryptForSigner(t.options[1].context, t.signerPublicKey[1], rand)
  IN [t EXCEPT !.pc = "awaitMakeInfer", !.apiContext = apiContext]

\* apiContext = await this.encryptWithPublicKey(options.context, signerPublicKey);
\* txUserInput = `enc:${inputHash}`; txContext = `enc:${contextHash}`
OnContextEncrypted(t, rand) ==
  LET apiContext == encryptForSigner(t.options[1].context, t.signerPublicKey[1], rand)
  IN [t EXCEPT !.pc = "awaitMakeInfer", !.apiContext = apiContext,
               !.txUserInput = EncPlaceholder(t.apiUserInput),
               !.txContext = EncPlaceholder(apiContext)]

\* const transaction = await makeInfer({...}) resolved: the request is built
\* and submitInferTask issues its fetch.
OnTransactionMade(t, fetchedFee, fetchedNonce) ==
  LET made == [t EXCEPT !.transaction =
                 Some(makeInferTransaction(MakeInferOptions(t), fetchedFee, fetchedNonce))]
  IN [made EXCEPT !.pc = "awaitSubmit", !.request = Some(SubmitTaskRequest(made))]

SubmitInit ==
  /\ BuilderIdle
  /\ sponsor = Unused
  /\ pair = Unused
  /\ chain = Unused
  /\ codec = Unused
  /\ api = Unused
  /\ task = SubmitIdle

\* api.submitInferenceTask(options) on an API object of some network.
SubmitInferenceTask ==
  /\ task.pc = "idle"
  /\ \E network \in Networks, options \in SubmitOptions :
       /\ options.encrypt = Absent
       /\ task' = SubmitStart("submitInferenceTask", network, options)
  /\ UNCHANGED <<builderVars, sponsor, pair, chain, codec, api>>

\* api.submitEncryptedInferenceTask(options) on an API object of some network.
SubmitEncryptedInferenceTask ==
  /\ task.pc = "idle"
  /\ \E network \in Networks, options \in SubmitOptions :
       task' = SubmitStart("submitEncryptedInferenceTask", network, options)
  /\ UNCHANGED <<builderVars, sponsor, pair, chain, codec, api>>

SignerKeyResolves ==
  /\ task.pc = "awaitSignerKey"
  /\ \E publicKey \in SignerPublicKeys : task' = OnSignerKey(task, publicKey)
  /\ UNCHANGED <<builderVars, sponsor, pair, chain, codec, api>>

InputEncrypted ==
  /\ task.pc = "awaitEncryptInput"
  /\ \E rand \in Randoms : task' = OnInputEncrypted(task, rand)
  /\ UNCHANGED <<builderVars, sponsor, pair, chain, codec, api>>

ContextEncrypted ==
  /\ task.pc = "awaitEncryptContext"
  /\ \E rand \in Randoms : task' = OnContextEncrypted(task, rand)
  /\ UNCHANGED <<builderVars, sponsor, pair, chain, codec, api>>

\* makeInfer resolves; a fee or nonce the caller omitted was fetched.
TransactionMade ==
  /\ task.pc = "awaitMakeInfer"
  /\ \E fetchedFee \in Amounts, fetchedNonce \in Amounts :
       task' = OnTransactionMade(task, fetchedFee, fetchedNonce)
  /\ UNCHANGED <<builderVars, sponsor, pair, chain, codec, api>>

\* An awaited call (getSignerPublicKey, makeInfer) rejects: so does the method.
SubmitCollaboratorRejects ==
  /\ task.pc \in {"awaitSignerKey", "awaitMakeInfer"}
  /\ \E e \in CollabErrors : task' = Rejected(task, e)
  /\ UNCHANGED <<builderVars, sponsor, pair, chain, codec, api>>

\* The fetch of submitInferTask resolves.
SubmitResponds ==
  /\ task.pc = "awaitSubmit"
  /\ \E response \in SubmitResponses : task' = submitInferTask(task, response)
  /\ UNCHANGED <<builderVars, sponsor, pair, chain, codec, api>>

SubmitNext ==
  \/ SubmitInferenceTask
  \/ SubmitEncryptedInferenceTask
  \/ SignerKeyResolves
  \/ InputEncrypted
  \/ ContextEncrypted
  \/ TransactionMade
  \/ SubmitCollaboratorRejects
  \/ SubmitResponds

SubmitSpec == SubmitInit /\ [][SubmitNext]_vars

(* ------------------------------------------------------------------ *)
(* Properties of the submit methods                                     *)
(* ------------------------------------------------------------------ *)

\* The caller's options, the transaction made and the request sent.
TO == task.options[1]

TX == task.transaction[1]

RQ == task.request[1]

RequestSent == task.method # "" /\ task.request # Absent

EncryptedSent == RequestSent /\ task.method = "submitEncryptedInferenceTask"

\* C21: submitEncryptedInferenceTask with encrypt anything but false puts the
\* plaintext userInput and context neither into the transaction nor into the
\* API request: the transaction holds the placeholders of the encrypted data,
\* the request holds the encrypted data, is_encrypted true and the signer key
\* both encryptions used. With encrypt false the plaintext is sent with
\* is_encrypted false.
C21_PlaintextNotSent ==
  EncryptedSent =>
    IF TO.encrypt # Some(FALSE)
      THEN /\ RQ.user_input.kind = "encrypted"
           /\ RQ.context.kind = "encrypted"
           /\ RQ.user_input.text = TO.userInput.text
           /\ RQ.context.text = TO.context.text
           /\ RQ.is_encrypted = Some(TRUE)
           /\ RQ.signer_public_key = Some(RQ.user_input.key)
           /\ RQ.signer_public_key = Some(RQ.context.key)
           /\ TX.payload.userInput = EncPlaceholder(RQ.user_input)
           /\ TX.payload.context = EncPlaceholder(RQ.context)
           /\ RQ.signed_tx = TX
      ELSE /\ RQ.user_input = TO.userInput
           /\ RQ.context = TO.context
           /\ RQ.is_encrypted = Some(FALSE)
           /\ RQ.signer_public_key = Absent
           /\ TX.payload.userInput = TO.userInput
           /\ TX.payload.context = TO.context

\* An encrypted submission with encrypt omitted that the server accepted,
\* the two texts encrypted with different randomness.
C21_Witness ==
  /\ EncryptedSent
  /\ TO.encrypt = Absent
  /\ task.pc = "resolved"
  /\ RQ.user_input.kind = "encrypted"
  /\ RQ.user_input.rand # RQ.context.rand
  /\ TX.payload.context.kind = "placeholder"

\* C27: the fee and nonce of the API request are the caller's: the same
\* value (0 included) when the caller supplied one, absent only when the
\* caller omitted it; user_address is the address of the private key that
\* signed the transaction.
C27_RequestFeeAndNonce ==
  RequestSent =>
    /\ RQ.fee = TO.fee
    /\ RQ.nonce = TO.nonce
    /\ RQ.user_address = getAddressFromPrivateKey(TX.signedBy, task.network)

\* C28: the infer payload carries the fixed boot principal as its node
\* principal on every network, whatever nodePrincipal the options hold; user
\* principal, amount, input, context and model name are the values passed.
C28_FixedNodePrincipal ==
  task.method # "" /\ task.transaction # Absent =>
    /\ TX.payload.nodePrincipal = "ST000000000000000000002AMW42H"
    /\ TX.payload.inferUserAddress = task.userAddress[1]
    /\ TX.payload.amount = TO.amount
    /\ TX.payload.userInput = task.txUserInput
    /\ TX.payload.context = task.txContext
    /\ TX.payload.modelName = TO.modelName

\* A transaction made on mainnet for options that name a node principal.
C28_Witness ==
  /\ task.method = "submitInferenceTask"
  /\ task.transaction # Absent
  /\ task.network = "mainnet"
  /\ TO.nodePrincipal = Some("SP-node-1")
  /\ TX.payload.nodePrincipal = "ST000000000000000000002AMW42H"

====
